---- MODULE Spec2Model ----
(***************************************************************************)
(* Verification model of the lightweight RAG subsystem:                    *)
(*   - LightweightVectorStore (SQLite documents / documents_fts / schemes  *)
(*     tables and the in-memory TF-IDF cache),                             *)
(*   - LightweightRAGAgent (query analysis, retrieval, synthesis),         *)
(*   - AutoReindexScheduler (full / incremental / maintenance jobs).       *)
(*                                                                         *)
(* Python strings are TLA+ strings, handled character by character with    *)
(* Len, Head, Tail, SubSeq and \o.  Floating point scores are exact        *)
(* rationals [num, den] in units of 1/1000; math.log is a table of         *)
(* ln(n) * 1000.  Python None is the value None, a missing dict key is     *)
(* the value Missing.  A raised exception is a record [ok |-> FALSE].      *)
(***************************************************************************)
EXTENDS Integers, Sequences, FiniteSets, TLC

VARIABLES
    documents,             \* rows of table documents, in created_at order
    documents_fts,         \* rows of virtual table documents_fts, in rowid order
    schemes,               \* rows of table schemes, in created_at order
    total_documents,       \* LightweightVectorStore.total_documents
    document_frequencies,  \* LightweightVectorStore.document_frequencies
    call,                  \* the last operation invoked, with its arguments
    ret,                   \* what that operation returned
    committed,             \* the three tables as of the last conn.commit()
    hash_seed,             \* the process's string-hash salt (PYTHONHASHSEED)
    conn,                  \* LightweightVectorStore.conn: "open" or "closed"
    now,                   \* wall clock of the scheduler process, in hours
    last_reindex_time,     \* AutoReindexScheduler.last_reindex_time
    state_file,            \* scheduler_state.json: persisted last_reindex_time
    vector_db,             \* number of upsert batches written to VectorDatabase
    oldest_content,        \* hour at which the oldest content of VectorDatabase was stored
    fetches,               \* number of crawler / PDF fetch runs performed
    backups,               \* number of completed backup_database calls
    logs,                  \* entries appended to the dated reindex / error logs
    is_running,            \* AutoReindexScheduler.is_running
    active,                \* what each thread is executing in the scheduler
    alert_summary,         \* rows of table alert_summary: each alert's is_sent state
    unsent_alerts,         \* AlertProcessor.process_alerts: alerts still to handle this cycle
    send_failures          \* per alert, the "Failed to send alert" lines logged so far

vars == <<documents, documents_fts, schemes, total_documents,
          document_frequencies, call, ret, committed, hash_seed, conn, now,
          last_reindex_time,
          state_file, vector_db, oldest_content, fetches, backups, logs,
          is_running, active, alert_summary, unsent_alerts,
          send_failures>>

storeVars == <<documents, documents_fts, schemes, total_documents,
               document_frequencies, committed, hash_seed, conn>>

threadVars == <<is_running, active>>

schedVars == <<now, last_reindex_time, state_file, vector_db, oldest_content, fetches,
               backups, logs, is_running, active>>

alertVars == <<alert_summary, unsent_alerts, send_failures>>

-----------------------------------------------------------------------------
(* Python values *)

None == "<None>"
Missing == "<Missing>"

Ok(v) == [ok |-> TRUE, val |-> v]
Raise(e) == [ok |-> FALSE, err |-> e]

\* the outcome of a call that returns None, and of no call yet: it carries no
\* value, since a None could not be compared with the dict or list that
\* another call returns
Returned == [ok |-> TRUE]

\* dict.get(key, default) on a value that is Missing when the key is absent
Get(v, default) == IF v = Missing THEN default ELSE v

\* Python truthiness of an optional string
Truthy(v) == v # None /\ v # Missing /\ v # ""

-----------------------------------------------------------------------------
(* Strings *)

UpperLetters == "ABCDEFGHIJKLMNOPQRSTUVWXYZ"
LowerLetters == "abcdefghijklmnopqrstuvwxyz"
Digits == "0123456789"

CharSet(s) == {SubSeq(s, i, i) : i \in 1..Len(s)}

\* str.lower() on one character
LowerMap ==
    [c \in CharSet(UpperLetters) |->
        LET i == CHOOSE j \in 1..Len(UpperLetters) : SubSeq(UpperLetters, j, j) = c
        IN  SubSeq(LowerLetters, i, i)]
LowerChar(c) == IF c \in DOMAIN LowerMap THEN LowerMap[c] ELSE c

RECURSIVE Lower(_)
Lower(s) == IF s = "" THEN "" ELSE LowerChar(Head(s)) \o Lower(Tail(s))

\* Python `needle in hay`
Contains(needle, hay) ==
    \E i \in 1..(Len(hay) - Len(needle) + 1) :
        SubSeq(hay, i, i + Len(needle) - 1) = needle

StartsWith(s, p) == Len(p) <= Len(s) /\ SubSeq(s, 1, Len(p)) = p

\* maximal runs of characters of class cls, left to right
RECURSIVE Runs(_, _, _, _)
Runs(s, cls, cur, acc) ==
    IF s = ""
    THEN IF cur = "" THEN acc ELSE Append(acc, cur)
    ELSE IF Head(s) \in cls
         THEN Runs(Tail(s), cls, cur \o Head(s), acc)
         ELSE Runs(Tail(s), cls, "", IF cur = "" THEN acc ELSE Append(acc, cur))

\* re.findall(r'\w+', s)
WordChars == CharSet(UpperLetters) \cup CharSet(LowerLetters) \cup CharSet(Digits) \cup {"_"}
FindAllWords(s) == Runs(s, WordChars, "", <<>>)

\* str.split()
RECURSIVE SplitWs(_, _, _)
SplitWs(s, cur, acc) ==
    IF s = ""
    THEN IF cur = "" THEN acc ELSE Append(acc, cur)
    ELSE IF Head(s) = " "
         THEN SplitWs(Tail(s), "", IF cur = "" THEN acc ELSE Append(acc, cur))
         ELSE SplitWs(Tail(s), cur \o Head(s), acc)
Split(s) == SplitWs(s, "", <<>>)

\* s[:n]
\* a slice that cuts nothing
Take_All(s, n) == s

Take(s, n) == SubSeq(s, 1, IF Len(s) < n THEN Len(s) ELSE n)

SeqRange(s) == {s[i] : i \in 1..Len(s)}

RECURSIVE SelectRows(_, _)
SelectRows(rows, keep) ==
    IF rows = <<>> THEN <<>>
    ELSE IF Head(rows) \in keep
         THEN <<Head(rows)>> \o SelectRows(Tail(rows), keep)
         ELSE SelectRows(Tail(rows), keep)

-----------------------------------------------------------------------------
(* Scores: rationals num/den with den > 0, in units of 1/1000 *)

Rat(n, d) == [num |-> n, den |-> d]
RatZero == Rat(0, 1)
RatLt(a, b) == a.num * b.den < b.num * a.den
RatLe(a, b) == a.num * b.den <= b.num * a.den
RatEq(a, b) == a.num * b.den = b.num * a.den
RatAdd(a, b) == Rat(a.num * b.den + b.num * a.den, a.den * b.den)

\* max() of a non-empty sequence of scores: the first maximal one
RECURSIVE RatMax(_)
RatMax(s) ==
    IF Len(s) = 1 THEN s[1]
    ELSE LET m == RatMax(Tail(s))
         IN  IF RatLt(s[1], m) THEN m ELSE s[1]

\* list.sort(key = score, reverse = True) on a sequence of [k: score, v: item]:
\* stable, items of equal score keep their order
RECURSIVE InsertByScore(_, _)
InsertByScore(sorted, x) ==
    IF sorted = <<>> THEN <<x>>
    ELSE IF RatLt(Head(sorted).k, x.k)
         THEN <<x>> \o sorted
         ELSE <<Head(sorted)>> \o InsertByScore(Tail(sorted), x)

RECURSIVE SortByScoreDesc(_)
SortByScoreDesc(s) ==
    IF s = <<>> THEN <<>>
    ELSE InsertByScore(SortByScoreDesc(SubSeq(s, 1, Len(s) - 1)), s[Len(s)])

-----------------------------------------------------------------------------
(* LightweightVectorStore: tokenizer and TF-IDF *)

stop_words == {"the", "is", "at", "which", "on", "a", "an", "and", "or", "but",
               "in", "with", "to", "for", "of"}

\* _tokenize(text)
_tokenize(text) ==
    LET words == FindAllWords(Lower(text))
    IN  SelectRows(words, {w \in SeqRange(words) : w \notin stop_words /\ Len(w) > 2})

\* Counter(doc_terms)[term]
CountOf(term, terms) == Cardinality({i \in 1..Len(terms) : terms[i] = term})

\* math.log(n) * 1000 for n = 1, 2, ...; math.log(0) raises ValueError
LnMilli == <<0, 693, 1099, 1386, 1609, 1792, 1946, 2079, 2197, 2303>>

\* self.document_frequencies.get(term, 1)
DfGet(df, term) == IF term \in DOMAIN df THEN df[term] ELSE 1

\* math.log(self.total_documents / (self.document_frequencies.get(term, 1) + 1)) * 1000;
\* defined for total > 0
Idf(total, df, term) == LnMilli[total] - LnMilli[DfGet(df, term) + 1]

\* the loop of _calculate_tfidf_similarity: sum over query terms of count * idf
RECURSIVE TfIdfSum(_, _, _, _)
TfIdfSum(query_terms, doc_terms, total, df) ==
    IF query_terms = <<>> THEN 0
    ELSE LET term == Head(query_terms)
             rest == TfIdfSum(Tail(query_terms), doc_terms, total, df)
         IN  IF CountOf(term, doc_terms) > 0
             THEN CountOf(term, doc_terms) * Idf(total, df, term) + rest
             ELSE rest

\* _calculate_tfidf_similarity(query_terms, document_content) under the cache
\* (total, df): sum(tf * idf) / len(query_terms), with tf = count / len(doc_terms)
_calculate_tfidf_similarity(query_terms, document_content, total, df) ==
    LET doc_terms == _tokenize(document_content)
        hits == {i \in 1..Len(query_terms) : CountOf(query_terms[i], doc_terms) > 0}
    IN  IF hits # {} /\ total = 0
        THEN Raise("ValueError: math domain error")
        ELSE IF query_terms = <<>> \/ hits = {}
             THEN Ok(RatZero)
             ELSE Ok(Rat(TfIdfSum(query_terms, doc_terms, total, df),
                         Len(doc_terms) * Len(query_terms)))

\* _calculate_text_relevance(query, title, description)
RECURSIVE WordScore(_, _, _)
WordScore(words, title_lower, description_lower) ==
    IF words = <<>> THEN 0
    ELSE (IF Contains(Head(words), title_lower) THEN 500 ELSE 0)
         + (IF Contains(Head(words), description_lower) THEN 300 ELSE 0)
         + WordScore(Tail(words), title_lower, description_lower)

_calculate_text_relevance(query, title, description) ==
    IF title = None \/ description = None
    THEN Raise("AttributeError: 'NoneType' object has no attribute 'lower'")
    ELSE LET query_lower == Lower(query)
         IN  Ok(Rat((IF Contains(query_lower, Lower(title)) THEN 2000 ELSE 0)
                    + (IF Contains(query_lower, Lower(description)) THEN 1500 ELSE 0)
                    + WordScore(Split(query_lower), Lower(title), Lower(description)),
                    1))

-----------------------------------------------------------------------------
(* SQLite FTS5 table documents_fts (tokenize = 'porter') *)

EndsWith(s, suffix) ==
    Len(suffix) <= Len(s) /\ SubSeq(s, Len(s) - Len(suffix) + 1, Len(s)) = suffix

\* the porter tokenizer's stemmer, reduced to its plural rule (step 1a);
\* the model's texts only hold words on which the further steps do nothing
PorterStem(w) ==
    IF Len(w) < 3 THEN w
    ELSE IF EndsWith(w, "sses") \/ EndsWith(w, "ies") THEN SubSeq(w, 1, Len(w) - 2)
    ELSE IF EndsWith(w, "ss") THEN w
    ELSE IF EndsWith(w, "s") THEN SubSeq(w, 1, Len(w) - 1)
    ELSE w

\* tokens the index holds for one column value: runs of letters and digits,
\* lower-cased and stemmed; a NULL column holds none
AlnumChars == CharSet(UpperLetters) \cup CharSet(LowerLetters) \cup CharSet(Digits)
FtsTokens(text) ==
    IF text = None THEN <<>>
    ELSE LET runs == Runs(Lower(text), AlnumChars, "", <<>>)
         IN  [i \in 1..Len(runs) |-> PorterStem(runs[i])]

\* phrase (with the last token as a prefix when prefix is TRUE) found in a column
PhraseInColumn(phrase, prefix, tokens) ==
    /\ phrase # <<>>
    /\ \E start \in 1..(Len(tokens) - Len(phrase) + 1) :
         \A j \in 1..Len(phrase) :
            IF j = Len(phrase) /\ prefix
            THEN StartsWith(tokens[start + j - 1], phrase[j])
            ELSE tokens[start + j - 1] = phrase[j]

PhraseInRow(phrase, prefix, row) ==
    \/ PhraseInColumn(phrase, prefix, FtsTokens(row.id))
    \/ PhraseInColumn(phrase, prefix, FtsTokens(row.title))
    \/ PhraseInColumn(phrase, prefix, FtsTokens(row.content))

\* _prepare_fts_query(query): the OR of "term"* over the terms longer than 2,
\* else the query text itself
_prepare_fts_query(query) ==
    LET terms == FindAllWords(Lower(query))
        fts_terms == SelectRows(terms, {t \in SeqRange(terms) : Len(t) > 2})
    IN  IF fts_terms = <<>>
        THEN [raw |-> TRUE, text |-> query]
        ELSE [raw |-> FALSE, terms |-> fts_terms]

\* documents_fts MATCH ?: the indices of the matching rows.  A raw query is
\* an FTS5 expression: barewords separated by blanks are ANDed; no bareword,
\* a character that is neither, or the bareword OR, is a syntax error.
FtsMatch(fts_query, fts) ==
    IF fts_query.raw
    THEN LET barewords == Split(fts_query.text)
         IN  IF \/ barewords = <<>>
                \/ \E c \in CharSet(fts_query.text) : c \notin WordChars \cup {" "}
                \/ \E w \in SeqRange(barewords) : w \in {"AND", "OR", "NOT"}
             THEN Raise("sqlite3.OperationalError: fts5: syntax error")
             ELSE Ok({i \in 1..Len(fts) :
                        \A w \in SeqRange(barewords) :
                            PhraseInRow(FtsTokens(w), FALSE, fts[i])})
    ELSE Ok({i \in 1..Len(fts) :
                \E t \in SeqRange(fts_query.terms) :
                    PhraseInRow(FtsTokens(t), TRUE, fts[i])})

\* the orders in which ORDER BY df.rank may deliver the matching rows
RankOrders(matching) ==
    {order \in [1..Cardinality(matching) -> matching] :
        \A i, j \in DOMAIN order : i # j => order[i] # order[j]}

\* the rows of documents joined to one documents_fts row (d.id = df.id)
Joined(docs, fts_row) == SelectRows(docs, {d \in SeqRange(docs) : d.id = fts_row.id})

RECURSIVE JoinAll(_, _, _)
JoinAll(docs, fts, order) ==
    IF order = <<>> THEN <<>>
    ELSE Joined(docs, fts[Head(order)]) \o JoinAll(docs, fts, Tail(order))

\* self.conn.cursor(): sqlite3.ProgrammingError once the connection is closed
Cursor ==
    IF conn = "open" THEN Ok("cursor")
    ELSE Raise("Cannot operate on a closed database.")

\* _fts_search(query, limit, filters), rows delivered in rank order `order`;
\* filters is accepted and not used
_fts_search(query, limit, filters, docs, fts, order) ==
    LET matching == FtsMatch(_prepare_fts_query(query), fts)
    IN  IF ~Cursor.ok THEN Cursor
        ELSE IF ~matching.ok THEN matching
        ELSE Ok(Take(JoinAll(docs, fts, order), limit))

\* the loop of search_similar over the FTS rows
RECURSIVE ScoreRows(_, _, _, _)
ScoreRows(rows, query_terms, total, df) ==
    IF rows = <<>> THEN Ok(<<>>)
    ELSE LET doc == Head(rows)
             similarity == _calculate_tfidf_similarity(query_terms, doc.content, total, df)
             rest == ScoreRows(Tail(rows), query_terms, total, df)
         IN  IF ~similarity.ok THEN similarity
             ELSE IF ~rest.ok THEN rest
             ELSE Ok(<<[content |-> doc.content, metadata |-> doc.metadata,
                        similarity |-> similarity.val, title |-> doc.title,
                        collection |-> doc.collection_type]>> \o rest.val)

Keyed(items, field) == [i \in 1..Len(items) |-> [k |-> items[i][field], v |-> items[i]]]
Unkeyed(pairs) == [i \in 1..Len(pairs) |-> pairs[i].v]

\* search_similar(query, top_k, filters): every exception becomes []
search_similar(query, top_k, filters, docs, fts, total, df, order) ==
    LET fts_results == _fts_search(query, top_k * 2, filters, docs, fts, order)
        query_terms == _tokenize(Lower(query))
    IN  IF ~fts_results.ok THEN <<>>
        ELSE LET results == ScoreRows(fts_results.val, query_terms, total, df)
             IN  IF ~results.ok THEN <<>>
                 ELSE Take(Unkeyed(SortByScoreDesc(Keyed(results.val, "similarity"))), top_k)

-----------------------------------------------------------------------------
(* LightweightVectorStore: tables and cache *)

\* INSERT OR REPLACE INTO documents / schemes: id is the PRIMARY KEY, the row
\* holding the same id is deleted and the new row is the most recent one
InsertOrReplace(rows, row) ==
    SelectRows(rows, {r \in SeqRange(rows) : r.id # row.id}) \o <<row>>

\* INSERT OR REPLACE INTO documents_fts: an fts5 table has no key but its
\* rowid, which the statement does not give, so nothing is ever replaced
FtsInsertOrReplace(fts, row) == Append(fts, row)

\* doc.get('id', f"doc_{hash(doc.get('content', ''))}")
Hash(text, seed) == seed \o ":" \o text
DocId(doc, seed) ==
    IF doc.id = Missing THEN "doc_" \o Hash(Get(doc.content, ""), seed) ELSE doc.id

\* json.dumps(doc.get('metadata', {})) raises TypeError when a value is not
\* serialisable, as a datetime under last_updated is
JsonSerialisable(metadata) == metadata.last_updated = Missing

\* the for loop of store_documents; when json.dumps raises, the rows executed
\* before it stay in the connection's open transaction
RECURSIVE StoreLoop(_, _, _, _)
StoreLoop(batch, docs, fts, seed) ==
    IF batch = <<>> THEN [ok |-> TRUE, docs |-> docs, fts |-> fts]
    ELSE LET doc == Head(batch)
             row == [id |-> DocId(doc, seed),
                     title |-> Get(doc.title, ""),
                     content |-> Get(doc.content, ""),
                     metadata |-> doc.metadata,
                     collection_type |-> Get(doc.collection_type, "general")]
         IN  IF ~JsonSerialisable(doc.metadata)
             THEN [ok |-> FALSE, docs |-> docs, fts |-> fts]
             ELSE StoreLoop(Tail(batch), InsertOrReplace(docs, row),
                            FtsInsertOrReplace(fts, [id |-> row.id, title |-> row.title,
                                                     content |-> row.content]),
                            seed)

\* _update_tfidf_cache(): the number of rows, and for every term the number
\* of rows whose content holds it
TermsOf(docs) == UNION {SeqRange(_tokenize(d.content)) : d \in SeqRange(docs)}
_update_tfidf_cache(docs) ==
    [total_documents |-> Len(docs),
     document_frequencies |->
        [t \in TermsOf(docs) |->
            Cardinality({i \in 1..Len(docs) : t \in SeqRange(_tokenize(docs[i].content))})]]

\* get_stats()
get_stats(docs, schs) == [total_documents |-> Len(docs), total_schemes |-> Len(schs)]

Tables == [documents |-> documents, documents_fts |-> documents_fts, schemes |-> schemes]

\* store_documents(documents)
StoreDocuments(batch) ==
    LET r == IF Cursor.ok THEN StoreLoop(batch, documents, documents_fts, hash_seed)
             ELSE [ok |-> FALSE, docs |-> documents, fts |-> documents_fts]
        cache == _update_tfidf_cache(r.docs)
    IN  /\ documents' = r.docs
        /\ documents_fts' = r.fts
        /\ IF r.ok
           THEN /\ committed' = [documents |-> r.docs, documents_fts |-> r.fts,
                                 schemes |-> schemes]
                /\ total_documents' = cache.total_documents
                /\ document_frequencies' = cache.document_frequencies
           ELSE UNCHANGED <<committed, total_documents, document_frequencies>>
        /\ UNCHANGED alertVars
        /\ call' = [op |-> "store_documents", documents |-> batch]
        /\ ret' = r.ok
        /\ UNCHANGED <<schemes, hash_seed, conn>>
        /\ UNCHANGED schedVars

\* store_scheme(scheme_data)
SchemeRow(scheme_data, seed) ==
    [id |-> IF scheme_data.id = Missing
            THEN "scheme_" \o Hash(Get(scheme_data.name, ""), seed)
            ELSE scheme_data.id,
     name |-> Get(scheme_data.name, ""),
     description |-> Get(scheme_data.description, ""),
     state |-> Get(scheme_data.state, ""),
     category |-> Get(scheme_data.category, ""),
     status |-> Get(scheme_data.status, "active")]

StoreScheme(scheme_data) ==
    /\ IF Cursor.ok
       THEN /\ schemes' = InsertOrReplace(schemes, SchemeRow(scheme_data, hash_seed))
            /\ committed' = [documents |-> documents, documents_fts |-> documents_fts,
                             schemes |-> schemes']
       ELSE UNCHANGED <<schemes, committed>>
    /\ UNCHANGED alertVars
    /\ call' = [op |-> "store_scheme", scheme_data |-> scheme_data]
    /\ ret' = Cursor.ok
    /\ UNCHANGED <<documents, documents_fts, total_documents, document_frequencies,
                   hash_seed, conn>>
    /\ UNCHANGED schedVars

\* a new process opens the database file: __init__ finds the committed
\* tables and starts with an empty TF-IDF cache
Reopen(seed) ==
    /\ documents' = committed.documents
    /\ documents_fts' = committed.documents_fts
    /\ schemes' = committed.schemes
    /\ total_documents' = 0
    /\ document_frequencies' = <<>>
    /\ hash_seed' = seed
    /\ conn' = "open"
    /\ UNCHANGED alertVars
    /\ call' = [op |-> "__init__"]
    /\ ret' = Returned
    /\ UNCHANGED committed
    /\ UNCHANGED schedVars

\* close(): the connection is closed, the tables stay in the file
Close ==
    /\ conn' = "closed"
    /\ UNCHANGED alertVars
    /\ call' = [op |-> "close"]
    /\ ret' = Returned
    /\ UNCHANGED <<documents, documents_fts, schemes, total_documents,
                   document_frequencies, committed, hash_seed>>
    /\ UNCHANGED schedVars

\* search_similar(query, top_k, filters)
FtsMatching(query) ==
    LET m == FtsMatch(_prepare_fts_query(query), documents_fts)
    IN  IF m.ok THEN m.val ELSE {}

SearchSimilar(query, top_k, filters) ==
    \E order \in RankOrders(FtsMatching(query)) :
        /\ UNCHANGED alertVars
        /\ call' = [op |-> "search_similar", query |-> query, top_k |-> top_k,
                    filters |-> filters]
        /\ ret' = search_similar(query, top_k, filters, documents, documents_fts,
                                 total_documents, document_frequencies, order)
        /\ UNCHANGED storeVars
        /\ UNCHANGED schedVars

\* get_system_stats()
GetSystemStats ==
    /\ UNCHANGED alertVars
    /\ call' = [op |-> "get_system_stats"]
    /\ ret' = IF Cursor.ok THEN Ok(get_stats(documents, schemes)) ELSE Cursor
    /\ UNCHANGED storeVars
    /\ UNCHANGED schedVars

-----------------------------------------------------------------------------
(* LightweightVectorStore: schemes *)

\* text LIKE pattern: % is any run, _ any one character, letters compare
\* without case
RECURSIVE LikeMatch(_, _)
LikeMatch(pattern, text) ==
    IF pattern = "" THEN text = ""
    ELSE IF Head(pattern) = "%"
         THEN LikeMatch(Tail(pattern), text)
              \/ (text # "" /\ LikeMatch(pattern, Tail(text)))
         ELSE /\ text # ""
              /\ (Head(pattern) = "_" \/ LowerChar(Head(pattern)) = LowerChar(Head(text)))
              /\ LikeMatch(Tail(pattern), Tail(text))

\* column LIKE ?: never true of a NULL column
Like(column, pattern) == column # None /\ LikeMatch(pattern, column)

\* the WHERE clause without its status condition
SchemeWhere_NoStatus(row, query, filters) ==
    /\ query # "" =>
          \/ Like(row.name, "%" \o query \o "%")
          \/ Like(row.description, "%" \o query \o "%")
    /\ Truthy(filters.state) => row.state = filters.state
    /\ Truthy(filters.category) => row.category = filters.category

\* the WHERE clause search_schemes builds
SchemeWhere(row, query, filters) ==
    /\ query # "" =>
          \/ Like(row.name, "%" \o query \o "%")
          \/ Like(row.description, "%" \o query \o "%")
    /\ Truthy(filters.state) => row.state = filters.state
    /\ Truthy(filters.category) => row.category = filters.category
    /\ Truthy(filters.status) => row.status = filters.status

Reverse(s) == [i \in 1..Len(s) |-> s[Len(s) + 1 - i]]

SchemeLimit == 20

\* the loop of search_schemes over the fetched rows
RECURSIVE SchemeResults(_, _)
SchemeResults(rows, query) ==
    IF rows = <<>> THEN Ok(<<>>)
    ELSE LET row == Head(rows)
             relevance == _calculate_text_relevance(query, row.name, row.description)
             rest == SchemeResults(Tail(rows), query)
         IN  IF ~relevance.ok THEN relevance
             ELSE IF ~rest.ok THEN rest
             ELSE Ok(<<[scheme_id |-> row.id, name |-> row.name,
                        description |-> row.description, state |-> row.state,
                        category |-> row.category, status |-> row.status,
                        relevance_score |-> relevance.val]>> \o rest.val)

\* search_schemes(query, filters): ORDER BY created_at DESC LIMIT 20, then
\* sorted by relevance; every exception becomes []
search_schemes(query, filters, schs) ==
    LET rows == Take(Reverse(SelectRows(schs, {r \in SeqRange(schs) :
                                                SchemeWhere(r, query, filters)})),
                     SchemeLimit)
        results == SchemeResults(rows, query)
    IN  IF ~Cursor.ok THEN <<>>
        ELSE IF ~results.ok THEN <<>>
        ELSE Unkeyed(SortByScoreDesc(Keyed(results.val, "relevance_score")))

SearchSchemes(query, filters) ==
    /\ UNCHANGED alertVars
    /\ call' = [op |-> "search_schemes", query |-> query, filters |-> filters]
    /\ ret' = search_schemes(query, filters, schemes)
    /\ UNCHANGED storeVars
    /\ UNCHANGED schedVars

-----------------------------------------------------------------------------
(* LightweightRAGAgent *)

\* any(term in query_lower for term in terms)
AnyIn(terms, query_lower) == \E t \in terms : Contains(t, query_lower)

indian_states == <<"andhra pradesh", "assam", "bihar", "gujarat", "haryana",
                   "karnataka", "kerala", "madhya pradesh", "maharashtra",
                   "odisha", "punjab", "rajasthan", "tamil nadu", "telangana",
                   "uttar pradesh", "west bengal">>

\* the for loop over indian_states: the first state named in the query
DetectState(query_lower) ==
    IF \E i \in DOMAIN indian_states : Contains(indian_states[i], query_lower)
    THEN LET first == CHOOSE i \in DOMAIN indian_states :
                        /\ Contains(indian_states[i], query_lower)
                        /\ \A j \in 1..(i - 1) : ~Contains(indian_states[j], query_lower)
         IN  indian_states[first]
    ELSE None

\* _detect_intent(query_lower)
_detect_intent(query_lower) ==
    IF AnyIn({"how to apply", "application", "apply"}, query_lower)
    THEN "application_process"
    ELSE IF AnyIn({"eligibility", "eligible", "qualify"}, query_lower)
    THEN "eligibility_check"
    ELSE IF AnyIn({"amount", "money", "subsidy", "benefit"}, query_lower)
    THEN "benefit_inquiry"
    ELSE IF AnyIn({"document", "documents", "papers"}, query_lower)
    THEN "documentation"
    ELSE "general_inquiry"

\* the context's location left unread
LocationState_Unread(context) == Ok(None)

\* A context is [is_none, farmer_type, state, location]; location is
\* [kind, state] with kind "missing" (no such key), "none" or "dict".
\* context.get('location', {}).get('state')
LocationState(context) ==
    IF context.location.kind = "none"
    THEN Raise("AttributeError: 'NoneType' object has no attribute 'get'")
    ELSE IF context.location.kind = "missing"
    THEN Ok(None)
    ELSE Ok(Get(context.location.state, None))

\* _analyze_query(query, context)
_analyze_query(query, context) ==
    LET query_lower == Lower(query)
        farmer_type ==
            IF ~context.is_none /\ Truthy(context.farmer_type) THEN context.farmer_type
            ELSE IF AnyIn({"small farmer", "marginal farmer"}, query_lower)
            THEN "small/marginal"
            ELSE IF Contains("large farmer", query_lower) THEN "large"
            ELSE "all"
        located == IF context.is_none THEN Ok(None) ELSE LocationState(context)
        category ==
            IF AnyIn({"irrigation", "drip", "water", "micro irrigation"}, query_lower)
            THEN "irrigation"
            ELSE IF AnyIn({"seed", "seeds"}, query_lower) THEN "seeds"
            ELSE IF AnyIn({"fertilizer", "fertiliser"}, query_lower) THEN "fertilizers"
            ELSE IF AnyIn({"insurance", "crop insurance"}, query_lower) THEN "insurance"
            ELSE IF AnyIn({"subsidy", "subsidies"}, query_lower) THEN "subsidy"
            ELSE "general"
    IN  IF ~located.ok THEN located
        ELSE Ok([farmer_type |-> farmer_type,
                 target_state |-> IF Truthy(located.val) THEN located.val
                                  ELSE DetectState(query_lower),
                 category |-> category,
                 query_intent |-> _detect_intent(query_lower)])

\* the filters _search_documents builds
DocumentFilters(analysis) ==
    [state |-> IF Truthy(analysis.target_state) THEN analysis.target_state ELSE Missing,
     category |-> IF Truthy(analysis.category) /\ analysis.category # "general"
                  THEN analysis.category ELSE Missing,
     status |-> Missing]

\* the filters _search_schemes builds: always status = active
SchemeFilters(analysis) == [DocumentFilters(analysis) EXCEPT !.status = "active"]

\* the suggestions without the test for a target state
_generate_suggestions_NoAdvice(query, analysis) ==
    <<"Try using more specific terms like 'PM-KISAN' or 'drip irrigation subsidy'",
      "Contact your local agricultural extension office for personalized guidance",
      "Visit the official PM-KISAN website: pmkisan.gov.in">>

\* _generate_suggestions(query, analysis)
_generate_suggestions(query, analysis) ==
    (IF ~Truthy(analysis.target_state)
     THEN <<"Mention your state name for state-specific schemes">> ELSE <<>>)
    \o <<"Try using more specific terms like 'PM-KISAN' or 'drip irrigation subsidy'",
         "Contact your local agricultural extension office for personalized guidance",
         "Visit the official PM-KISAN website: pmkisan.gov.in">>

\* _generate_farmer_recommendations(schemes, analysis)
_generate_farmer_recommendations(all_schemes, analysis) ==
    (IF analysis.farmer_type = "small/marginal"
     THEN <<"As a small/marginal farmer, focus on schemes with higher subsidy rates",
            "Consider joining Farmer Producer Organizations (FPOs) for better benefits">>
     ELSE <<>>)
    \o (IF analysis.category = "irrigation"
        THEN <<"Drip irrigation can save 30-50% water and increase yield significantly",
               "Apply for irrigation schemes before the monsoon season">>
        ELSE <<>>)
    \o <<"Keep all required documents (Aadhaar, land records, bank details) ready",
         "Visit your nearest Krishi Vigyan Kendra for technical guidance",
         "Apply within the specified deadlines to avoid rejection">>

\* the first loop of _synthesize_response: one entry per structured scheme
StructuredEntries(schs) ==
    [i \in 1..Len(schs) |->
        [name |-> Get(schs[i].name, "Government Scheme"),
         description |-> Get(schs[i].description, ""),
         state |-> Get(schs[i].state, ""),
         category |-> Get(schs[i].category, "general"),
         status |-> Get(schs[i].status, "active"),
         relevance_score |-> schs[i].relevance_score,
         data_source |-> "structured_schemes"]]

\* the second loop without the test for a name already added
RECURSIVE DocumentEntries_NoDedup(_, _, _)
DocumentEntries_NoDedup(docs, all_schemes, scheme_names_added) ==
    IF docs = <<>> THEN Ok(all_schemes)
    ELSE LET doc == Head(docs)
             metadata == doc.metadata
             raw_name == Get(metadata.scheme_name, "")
         IN  IF raw_name = None
             THEN Raise("'NoneType' object has no attribute 'lower'")
             ELSE IF Lower(raw_name) # ""
                  THEN DocumentEntries_NoDedup(Tail(docs),
                           Append(all_schemes,
                               [name |-> Get(metadata.scheme_name, "Government Scheme"),
                                description |-> IF Len(doc.content) > 300
                                                THEN Take(doc.content, 300) \o "..."
                                                ELSE doc.content,
                                state |-> Get(metadata.state, ""),
                                category |-> Get(metadata.category, "general"),
                                status |-> "active",
                                relevance_score |-> doc.similarity,
                                data_source |-> "documents"]),
                           scheme_names_added)
                  ELSE DocumentEntries_NoDedup(Tail(docs), all_schemes, scheme_names_added)

\* the second loop of _synthesize_response: a document is added when its
\* metadata names a scheme not yet added; .lower() of a None name raises
RECURSIVE DocumentEntries(_, _, _)
DocumentEntries(docs, all_schemes, scheme_names_added) ==
    IF docs = <<>> THEN Ok(all_schemes)
    ELSE LET doc == Head(docs)
             metadata == doc.metadata
             raw_name == Get(metadata.scheme_name, "")
         IN  IF raw_name = None
             THEN Raise("'NoneType' object has no attribute 'lower'")
             ELSE LET scheme_name == Lower(raw_name)
                  IN  IF scheme_name # "" /\ scheme_name \notin scheme_names_added
                      THEN DocumentEntries(Tail(docs),
                               Append(all_schemes,
                                   [name |-> Get(metadata.scheme_name, "Government Scheme"),
                                    description |-> IF Len(doc.content) > 300
                                                    THEN Take(doc.content, 300) \o "..."
                                                    ELSE doc.content,
                                    state |-> Get(metadata.state, ""),
                                    category |-> Get(metadata.category, "general"),
                                    status |-> "active",
                                    relevance_score |-> doc.similarity,
                                    data_source |-> "documents"]),
                               scheme_names_added \cup {scheme_name})
                      ELSE DocumentEntries(Tail(docs), all_schemes, scheme_names_added)

TopSchemes == 5
TopDocuments == 5

\* min(max_score * 0.9, 1.0)
Confidence(all_schemes) ==
    LET max_score == RatMax([i \in 1..Len(all_schemes) |-> all_schemes[i].relevance_score])
        damped == Rat(max_score.num * 9, max_score.den * 10)
    IN  IF RatLt(Rat(1000, 1), damped) THEN Rat(1000, 1) ELSE damped

\* _synthesize_response(query, documents, schemes, analysis)
_synthesize_response(query, docs, schs, analysis) ==
    LET structured == StructuredEntries(Take(schs, TopSchemes))
    IN  IF \E i \in DOMAIN structured : structured[i].name = None
        THEN Raise("'NoneType' object has no attribute 'lower'")
        ELSE LET merged == DocumentEntries(Take(docs, TopDocuments), structured,
                               {Lower(structured[i].name) : i \in DOMAIN structured})
             IN  IF ~merged.ok THEN merged
                 ELSE IF merged.val = <<>>
                 THEN Ok([success |-> FALSE,
                          message |-> "No relevant government schemes found for your query.",
                          schemes |-> <<>>,
                          confidence |-> RatZero,
                          suggestions |-> _generate_suggestions(query, analysis)])
                 ELSE Ok([success |-> TRUE,
                          message |-> "Found " \o ToString(Len(merged.val))
                                      \o " relevant government schemes.",
                          schemes |-> merged.val,
                          confidence |-> Confidence(merged.val),
                          total_found |-> Len(merged.val),
                          query_processed |-> query,
                          farmer_recommendations |->
                              _generate_farmer_recommendations(merged.val, analysis)])

\* process_query(query, context): every exception becomes a failure response
process_query(query, context, docs, fts, schs, total, df, order) ==
    LET query_analysis == _analyze_query(query, context)
        failed(e) == [success |-> FALSE,
                      error |-> "Failed to process query: " \o e.err,
                      query |-> query]
    IN  IF ~query_analysis.ok THEN failed(query_analysis)
        ELSE LET found_documents ==
                     search_similar(query, 10, DocumentFilters(query_analysis.val),
                                    docs, fts, total, df, order)
                 found_schemes ==
                     search_schemes(query, SchemeFilters(query_analysis.val), schs)
                 response == _synthesize_response(query, found_documents, found_schemes,
                                                  query_analysis.val)
             IN  IF ~response.ok THEN failed(response) ELSE response.val

ProcessQuery(query, context) ==
    \E order \in RankOrders(FtsMatching(query)) :
        /\ UNCHANGED alertVars
        /\ call' = [op |-> "process_query", query |-> query, context |-> context]
        /\ ret' = process_query(query, context, documents, documents_fts, schemes,
                                total_documents, document_frequencies, order)
        /\ UNCHANGED storeVars
        /\ UNCHANGED schedVars

\* the documents index_government_sources builds from the indexed pages
\* (of the metadata, the keys the agent reads later)
WebDocuments(website_content, seed) ==
    [i \in 1..Len(website_content) |->
        [id |-> "web_" \o Hash(website_content[i].url, seed),
         title |-> website_content[i].title,
         content |-> website_content[i].content,
         metadata |-> [scheme_name |-> website_content[i].scheme_name,
                       state |-> website_content[i].state,
                       category |-> website_content[i].category,
                       last_updated |-> Missing],
         collection_type |-> website_content[i].category]]

\* the store_scheme calls of index_government_sources: a page with a scheme
\* name and eligibility criteria is also stored as an active scheme
RECURSIVE WebSchemes(_, _, _)
WebSchemes(website_content, schs, seed) ==
    IF website_content = <<>> THEN schs
    ELSE LET content == Head(website_content)
         IN  IF Truthy(content.scheme_name) /\ content.eligibility # <<>>
             THEN WebSchemes(Tail(website_content),
                      InsertOrReplace(schs,
                          SchemeRow([id |-> "scheme_" \o Hash(content.scheme_name, seed),
                                     name |-> content.scheme_name,
                                     description |-> Take(content.content, 500),
                                     state |-> content.state,
                                     category |-> content.category,
                                     status |-> "active"], seed)),
                      seed)
             ELSE WebSchemes(Tail(website_content), schs, seed)

\* index_government_sources(), website_content being what start_indexing
\* returned
IndexGovernmentSources(website_content) ==
    LET r == IF Cursor.ok
             THEN StoreLoop(WebDocuments(website_content, hash_seed), documents,
                            documents_fts, hash_seed)
             ELSE [ok |-> FALSE, docs |-> documents, fts |-> documents_fts]
        cache == _update_tfidf_cache(r.docs)
        stored == website_content # <<>> /\ r.ok
    IN  /\ schemes' = IF Cursor.ok THEN WebSchemes(website_content, schemes, hash_seed)
                      ELSE schemes
        /\ documents' = r.docs
        /\ documents_fts' = r.fts
        /\ IF stored
           THEN /\ committed' = [documents |-> r.docs, documents_fts |-> r.fts,
                                 schemes |-> schemes']
                /\ total_documents' = cache.total_documents
                /\ document_frequencies' = cache.document_frequencies
           ELSE /\ committed' = IF schemes' = schemes THEN committed
                                ELSE [documents |-> documents,
                                      documents_fts |-> documents_fts,
                                      schemes |-> schemes']
                /\ UNCHANGED <<total_documents, document_frequencies>>
        /\ UNCHANGED alertVars
        /\ call' = [op |-> "index_government_sources",
                    website_content |-> website_content]
        /\ ret' = [success |-> TRUE,
                   websites_indexed |-> Len(website_content),
                   documents_stored |-> Len(website_content)]
        /\ UNCHANGED <<hash_seed, conn>>
        /\ UNCHANGED schedVars

-----------------------------------------------------------------------------
(* Initial state: a new database file, a scheduler that has never run *)

StoreInit ==
    /\ documents = <<>>
    /\ documents_fts = <<>>
    /\ schemes = <<>>
    /\ total_documents = 0
    /\ document_frequencies = <<>>
    /\ committed = [documents |-> <<>>, documents_fts |-> <<>>, schemes |-> <<>>]
    /\ hash_seed = "seed0"
    /\ conn = "open"

\* the threads that may execute scheduler code: the loop thread of
\* start_scheduler, the one a second start creates, and two threads that
\* call force_reindex
LoopThreads == {"loop1", "loop2"}
Callers == {"caller1", "caller2"}
Threads == LoopThreads \cup Callers

\* None where a datetime is expected: datetimes are numbers of hours, and
\* this one is no hour of the clock
NoneTime == -1

SchedInit ==
    /\ now = 0
    /\ last_reindex_time = NoneTime
    /\ state_file = [exists |-> FALSE, last_reindex_time |-> None]
    /\ vector_db = 0
    /\ oldest_content = NoneTime
    /\ fetches = 0
    /\ backups = 0
    /\ logs = <<>>
    /\ is_running = FALSE
    /\ active = [t \in Threads |-> "none"]

\* Alerts the table alert_summary can hold in the model.
MaxAlerts == 3

AlertIds == 1..MaxAlerts

\* Failed deliveries of one alert that are told apart; later ones count as the last.
MaxSendFailures == 2

\* Before the processor runs: no alert has been raised, no cycle is in progress.
AlertInit ==
    /\ alert_summary = [a \in AlertIds |-> "absent"]
    /\ unsent_alerts = <<>>
    /\ send_failures = [a \in AlertIds |-> 0]

Init ==
    /\ StoreInit
    /\ SchedInit
    /\ AlertInit
    /\ call = [op |-> "none"]
    /\ ret = Returned

\* a new store and scheduler with one operation about to be applied: its arguments
\* wait in call until the operation is applied to them
Pending(calls) ==
    /\ StoreInit
    /\ SchedInit
    /\ AlertInit
    /\ call \in calls
    /\ ret = Returned

-----------------------------------------------------------------------------
(* The Document Store under store_documents, search_similar and restarts *)

MaxFtsRows == 3

NoFilters == [state |-> Missing, category |-> Missing, status |-> Missing]

Metadata(scheme_name, state, last_updated) ==
    [scheme_name |-> scheme_name, state |-> state, category |-> "central",
     last_updated |-> last_updated]

StoreDoc(id, content, last_updated) ==
    [id |-> id, title |-> Missing, content |-> content,
     metadata |-> Metadata("PMKSY", Missing, last_updated),
     collection_type |-> Missing]

GoodDocs == {StoreDoc(id, content, Missing) :
                id \in {"d1", "d2"}, content \in {"drip drip", "Drip seeds"}}
BadDocs == {StoreDoc("d2", "drip drip", "<datetime>")}

\* one document, or a document for d1 followed by one for d2
StoreBatches ==
    {<<d>> : d \in GoodDocs \cup BadDocs}
    \cup {<<a, b>> : a \in {d \in GoodDocs : d.id = "d1"},
                    b \in {d \in GoodDocs \cup BadDocs : d.id = "d2"}}

StoreQueries == {"drip", "seeds", "drip seeds", "", "of"}

StoreNext ==
    \/ \E batch \in StoreBatches :
          /\ Len(documents_fts) + Len(batch) <= MaxFtsRows
          /\ StoreDocuments(batch)
    \/ \E query \in StoreQueries, top_k \in {1, 10} : SearchSimilar(query, top_k, NoFilters)
    \/ GetSystemStats
    \/ Reopen("seed0")

Spec == Init /\ [][StoreNext]_vars

RowsWithId(rows, id) == Cardinality({i \in 1..Len(rows) : rows[i].id = id})

CacheFresh ==
    /\ total_documents = _update_tfidf_cache(documents).total_documents
    /\ document_frequencies = _update_tfidf_cache(documents).document_frequencies

\* C1: after store_documents has stored a document, its id has exactly one
\* row in documents and exactly one row in documents_fts, however often the
\* id was stored before, and get_system_stats().total_documents is the number
\* of distinct ids stored (so a second store of an id leaves it unchanged).
C1_IdempotentUpsert ==
    (call.op = "store_documents" /\ ret = TRUE) =>
        /\ \A i \in 1..Len(call.documents) :
              LET id == DocId(call.documents[i], hash_seed)
              IN  /\ RowsWithId(documents, id) = 1
                  /\ RowsWithId(documents_fts, id) = 1
        /\ get_stats(documents, schemes).total_documents
              = Cardinality({documents[i].id : i \in 1..Len(documents)})

\* a search result that is the stored document D
IsResultOf(r, D) ==
    /\ r.content = D.content
    /\ r.metadata = D.metadata
    /\ r.title = D.title
    /\ r.collection = D.collection_type

\* C2: a search_similar whose query is a non-empty set of a stored
\* document's own tokens, with top_k no smaller than the corpus, returns that
\* document with similarity > 0.
C2_FindableByOwnVocabulary ==
    (/\ call.op = "search_similar"
     /\ call.top_k >= Len(documents_fts)
     /\ CacheFresh) =>
        \A i \in 1..Len(documents) :
            LET D == documents[i]
                query_terms == SeqRange(_tokenize(call.query))
            IN  (query_terms # {} /\ query_terms \subseteq SeqRange(_tokenize(D.content))) =>
                    \E j \in 1..Len(ret) :
                        IsResultOf(ret[j], D) /\ RatLt(RatZero, ret[j].similarity)

\* C3: under the store's term statistics, for two stored documents A and B
\* with the same number of tokens, where A holds one query term more often
\* than B and every other query term equally often, score(query, A) >=
\* score(query, B).
C3_TfIdfMonotone ==
    total_documents > 0 =>
        \A i, j \in 1..Len(documents), query \in StoreQueries :
            LET q == _tokenize(Lower(query))
                a == _tokenize(documents[i].content)
                b == _tokenize(documents[j].content)
                scoreA == _calculate_tfidf_similarity(q, documents[i].content,
                              total_documents, document_frequencies)
                scoreB == _calculate_tfidf_similarity(q, documents[j].content,
                              total_documents, document_frequencies)
            IN  (/\ Len(a) = Len(b)
                 /\ \E t \in SeqRange(q) :
                       /\ CountOf(t, a) > CountOf(t, b)
                       /\ \A u \in SeqRange(q) \ {t} : CountOf(u, a) = CountOf(u, b))
                => RatLe(scoreB.val, scoreA.val)

-----------------------------------------------------------------------------
(* The Scheme Store under store_scheme and search_schemes *)

SchemeInputs ==
    {[id |-> id, name |-> kind.name, description |-> "subsidy for farmers",
      state |-> state, category |-> kind.category, status |-> status] :
        id \in {"s1", "s2"},
        kind \in {[name |-> "PM-KISAN", category |-> "subsidy"],
                  [name |-> "Drip Yojana", category |-> "irrigation"]},
        state \in {"karnataka", "maharashtra", None},
        status \in {"active", "closed"}}

SchemeQueries == {"", "drip", "Kisan"}

SchemeFilterInputs ==
    {[state |-> state, category |-> category, status |-> status] :
        state \in {Missing, "karnataka"}, category \in {Missing, "irrigation"},
        status \in {Missing, "active"}}

SchemesNext ==
    \/ \E scheme_data \in SchemeInputs : StoreScheme(scheme_data)
    \/ \E query \in SchemeQueries, filters \in SchemeFilterInputs :
          SearchSchemes(query, filters)

SpecSchemes == Init /\ [][SchemesNext]_vars

StoredScheme(scheme_id) == CHOOSE row \in SeqRange(schemes) : row.id = scheme_id

\* C4: search_schemes with a non-empty state, category or status filter
\* returns only schemes whose stored state, category or status equals the
\* filter value.
C4_FilterCorrectness ==
    call.op = "search_schemes" =>
        \A i \in 1..Len(ret) :
            /\ \E row \in SeqRange(schemes) : row.id = ret[i].scheme_id
            /\ LET row == StoredScheme(ret[i].scheme_id)
               IN  /\ Truthy(call.filters.state) => row.state = call.filters.state
                   /\ Truthy(call.filters.status) => row.status = call.filters.status
                   /\ Truthy(call.filters.category) => row.category = call.filters.category

\* a filtered search that returned a scheme while the store held a scheme of
\* another state and one of another status
C4_Witness ==
    /\ call.op = "search_schemes"
    /\ Truthy(call.filters.state)
    /\ Truthy(call.filters.status)
    /\ Len(ret) > 0
    /\ \E row \in SeqRange(schemes) : row.state # call.filters.state
    /\ \E row \in SeqRange(schemes) : row.status # call.filters.status

-----------------------------------------------------------------------------
(* _synthesize_response on the result lists the two searches can deliver *)

MaxSynthSchemes == 6
MaxSynthDocs == 2

\* a search_schemes result
SchemeResult(name) ==
    [scheme_id |-> "scheme_" \o name, name |-> name, description |-> "income support",
     state |-> "", category |-> "central", status |-> "active",
     relevance_score |-> Rat(2000, 1)]

\* a search_similar result
DocumentResult(scheme_name) ==
    [content |-> "income support for farmers",
     metadata |-> Metadata(scheme_name, Missing, Missing),
     similarity |-> Rat(405, 2), title |-> "", collection |-> "general"]

SynthSchemeLists ==
    UNION {[1..n -> {SchemeResult(name) : name \in {"PM-KISAN", "pm-kisan", "PMKSY"}}] :
              n \in 0..MaxSynthSchemes}

SynthDocLists ==
    UNION {[1..n -> {DocumentResult(name) : name \in {"pm-kisan", "PMKSY", "", None}}] :
              n \in 0..MaxSynthDocs}

SynthAnalyses ==
    {[farmer_type |-> "all", target_state |-> None, category |-> "general",
      query_intent |-> "general_inquiry"],
     [farmer_type |-> "small/marginal", target_state |-> "karnataka",
      category |-> "irrigation", query_intent |-> "benefit_inquiry"]}

SynthCalls ==
    {[op |-> "pending", query |-> "pm kisan", documents |-> docs, schemes |-> schs,
      analysis |-> analysis] :
        docs \in SynthDocLists, schs \in SynthSchemeLists, analysis \in SynthAnalyses}

Synthesize(query, docs, schs, analysis) ==
    /\ UNCHANGED alertVars
    /\ call' = [op |-> "_synthesize_response", query |-> query, documents |-> docs,
                schemes |-> schs, analysis |-> analysis]
    /\ ret' = _synthesize_response(query, docs, schs, analysis)
    /\ UNCHANGED storeVars
    /\ UNCHANGED schedVars

SynthNext ==
    /\ call.op = "pending"
    /\ Synthesize(call.query, call.documents, call.schemes, call.analysis)

SpecSynth == Pending(SynthCalls) /\ [][SynthNext]_vars

\* the entries of a merged list whose name is `name` ignoring case
EntriesNamed(merged, name) ==
    {k \in 1..Len(merged) : Lower(merged[k].name) = Lower(name)}

\* a structured scheme and a document naming it, up to case
SameScheme(scheme, doc) ==
    /\ doc.metadata.scheme_name # None
    /\ doc.metadata.scheme_name # ""
    /\ Lower(doc.metadata.scheme_name) = Lower(scheme.name)

-----------------------------------------------------------------------------
(* _analyze_query on queries and contexts *)

AnalyzeQuery(query, context) ==
    /\ UNCHANGED alertVars
    /\ call' = [op |-> "_analyze_query", query |-> query, context |-> context]
    /\ ret' = _analyze_query(query, context)
    /\ UNCHANGED storeVars
    /\ UNCHANGED schedVars

NoLocation == [kind |-> "missing", state |-> Missing]
Location(state) == [kind |-> "dict", state |-> state]

\* the contexts callers build: None, or a dict in which each of farmer_type,
\* state and location is absent or set
Contexts ==
    {[is_none |-> TRUE, farmer_type |-> Missing, state |-> Missing,
      location |-> NoLocation]}
    \cup {[is_none |-> FALSE, farmer_type |-> farmer_type, state |-> state,
           location |-> location] :
            farmer_type \in {Missing, "large"},
            state \in {Missing, "maharashtra"},
            location \in {NoLocation, Location(Missing), Location("maharashtra"),
                          Location("")}}

Queries ==
    {"drip irrigation subsidy for small farmer",
     "Drip irrigation in Karnataka",
     "seeds for large farmer in Punjab and Haryana",
     "how to apply for crop insurance",
     "PM-KISAN eligibility",
     "documents for fertiliser subsidy",
     "",
     "?"}

AnalyzeCalls ==
    {[op |-> "pending", query |-> query, context |-> context] :
        query \in Queries, context \in Contexts}

AnalyzeNext ==
    /\ call.op = "pending"
    /\ AnalyzeQuery(call.query, call.context)

SpecAnalyze == Pending(AnalyzeCalls) /\ [][AnalyzeNext]_vars

Scenario == "drip irrigation subsidy for small farmer"

\* C7 as stated: the scenario query with context {state: "maharashtra"}
\* yields irrigation, small/marginal and target_state maharashtra, and a state
\* given as the context's state always becomes target_state.
C7_Original ==
    (call.op = "_analyze_query" /\ ~call.context.is_none
        /\ Truthy(call.context.state)) =>
        /\ ret.ok
        /\ ret.val.target_state = call.context.state
        /\ (call.query = Scenario /\ call.context.farmer_type = Missing) =>
              /\ ret.val.category = "irrigation"
              /\ ret.val.farmer_type = "small/marginal"

\* C7 (amended): the scenario query with context {location: {state:
\* "maharashtra"}} yields irrigation, small/marginal and target_state
\* maharashtra; a state given under the context's location always becomes
\* target_state, whatever states the query names; the context's own state
\* key is not read.
C7_Analysis ==
    (call.op = "_analyze_query" /\ ~call.context.is_none
        /\ call.context.location.kind = "dict"
        /\ Truthy(call.context.location.state)) =>
        /\ ret.ok
        /\ ret.val.target_state = call.context.location.state
        /\ (call.query = Scenario /\ call.context.farmer_type = Missing) =>
              /\ ret.val.category = "irrigation"
              /\ ret.val.farmer_type = "small/marginal"

\* the scenario query was analysed with maharashtra as the location's state
C7_Witness ==
    /\ call.op = "_analyze_query"
    /\ call.query = Scenario
    /\ ~call.context.is_none
    /\ call.context.farmer_type = Missing
    /\ call.context.location = Location("maharashtra")
    /\ ret.ok
    /\ ret.val = [farmer_type |-> "small/marginal", target_state |-> "maharashtra",
                  category |-> "irrigation", query_intent |-> "benefit_inquiry"]

-----------------------------------------------------------------------------
(* process_query on an empty store *)

NoContext ==
    [is_none |-> TRUE, farmer_type |-> Missing, state |-> Missing,
     location |-> NoLocation]

EmptyNext ==
    /\ call.op = "pending"
    /\ ProcessQuery(call.query, call.context)

SpecEmpty == Pending(AnalyzeCalls) /\ [][EmptyNext]_vars

StateAdvice == "Mention your state name for state-specific schemes"

\* the query names one of the states, or the context's location gives one
StateGiven(query, context) ==
    \/ \E state \in SeqRange(indian_states) : Contains(state, Lower(query))
    \/ /\ ~context.is_none
       /\ context.location.kind = "dict"
       /\ Truthy(context.location.state)

-----------------------------------------------------------------------------
(* The agent over a store filled by indexing and store_scheme *)

\* an IndexedContent of the website indexer, which yields a page when it
\* found a scheme name or eligibility criteria on it
IndexedContent(url, scheme_name, eligibility, state) ==
    [url |-> url, title |-> "Schemes", content |-> "drip irrigation yojana",
     scheme_name |-> scheme_name, eligibility |-> eligibility, state |-> state,
     category |-> "central"]

Pages ==
    {IndexedContent("u1", "Drip Yojana", <<"small farmers">>, "maharashtra"),
     IndexedContent("u2", None, <<"small farmers">>, None),
     IndexedContent("u3", "Drip Yojana", <<>>, None)}

WebsiteContents == {<<a>> : a \in Pages} \cup {<<a, b>> : a, b \in Pages}

IrrigationFund(status) ==
    [id |-> "s1", name |-> "Micro Irrigation Fund",
     description |-> "drip irrigation subsidy", state |-> "maharashtra",
     category |-> "irrigation", status |-> status]

\* the scheme of the indexed pages, stored again by hand with a status
DripYojana(status) ==
    [id |-> Missing, name |-> "Drip Yojana",
     description |-> "drip irrigation yojana", state |-> "maharashtra",
     category |-> "central", status |-> status]

MaxIndexedRows == 2

AgentQueries == {"drip", "yojana"}
AgentContexts ==
    {NoContext,
     [is_none |-> FALSE, farmer_type |-> Missing, state |-> Missing,
      location |-> Location("maharashtra")]}

QueryNext ==
    \/ \E website_content \in WebsiteContents :
          /\ Len(documents_fts) + Len(website_content) <= MaxIndexedRows
          /\ IndexGovernmentSources(website_content)
    \/ \E status \in {"active", "closed"} : StoreScheme(IrrigationFund(status))
    \/ StoreScheme(DripYojana("closed"))
    \/ Close
    \/ \E query \in AgentQueries, context \in AgentContexts :
          ProcessQuery(query, context)

SpecQuery == Init /\ [][QueryNext]_vars

\* C6: a response of process_query that carries a confidence has it between
\* 0.0 and 1.0, and the confidence is 0.0 exactly when the merged scheme list
\* is empty.
C6_ConfidenceBounds ==
    (call.op = "process_query" /\ "confidence" \in DOMAIN ret) =>
        /\ RatLe(RatZero, ret.confidence)
        /\ RatLe(ret.confidence, Rat(1000, 1))
        /\ RatEq(ret.confidence, RatZero) <=> (ret.schemes = <<>>)

\* the active schemes of the Scheme Store that match the query and the
\* filters derived from it
ActiveMatches(query, context) ==
    LET analysis == _analyze_query(query, context).val
        filters == SchemeFilters(analysis)
    IN  {row \in SeqRange(schemes) :
            /\ row.status = "active"
            /\ \/ Contains(Lower(query), Lower(row.name))
               \/ Contains(Lower(query), Lower(row.description))
            /\ filters.state # Missing => row.state = filters.state
            /\ filters.category # Missing => row.category = filters.category}

WaterSavingTip ==
    "Drip irrigation can save 30-50% water and increase yield significantly"

\* C8: whenever an active scheme of the Scheme Store matches the query and
\* the derived filters, process_query answers success = true with a non-empty
\* schemes list, whatever documents the Document Store returns; for an
\* irrigation query the recommendations then hold the water-saving tip.
C8_SchemeMatchSucceeds ==
    (call.op = "process_query" /\ ActiveMatches(call.query, call.context) # {}) =>
        /\ ret.success = TRUE
        /\ ret.schemes # <<>>
        /\ _analyze_query(call.query, call.context).val.category = "irrigation" =>
              WaterSavingTip \in SeqRange(ret.farmer_recommendations)

\* C12: when the database access of the stores fails during process_query,
\* here because the connection was closed, process_query answers the
\* failure {success: false, error: "Failed to process query: ..."} and the
\* error carries the error string of the failure.
C12_DatabaseFailureReported ==
    (call.op = "process_query" /\ conn = "closed") =>
        /\ ret.success = FALSE
        /\ "error" \in DOMAIN ret
        /\ StartsWith("Failed to process query: ", ret.error)
        /\ Contains(Cursor.err, ret.error)

\* C13: process_query returns no entry for a scheme that the Scheme Store
\* holds only with a status other than active (closed, upcoming).
C13_OnlyActiveSurfaced ==
    (call.op = "process_query" /\ ret.success) =>
        \A k \in 1..Len(ret.schemes) :
            LET records == {row \in SeqRange(schemes) :
                               Lower(row.name) = Lower(ret.schemes[k].name)}
            IN  records # {} => \E row \in records : row.status = "active"

-----------------------------------------------------------------------------
(* AutoReindexScheduler: the three jobs, force_reindex and restarts *)

MaxClock == 360
MaxLogs == 2
MaxBackups == 2
MaxFetches == 2

Hours == 0..MaxClock

\* datetime.isoformat() and datetime.fromisoformat()
isoformat(t) == "T+" \o ToString(t) \o "h"
fromisoformat(text) == CHOOSE t \in Hours : isoformat(t) = text

\* timedelta.days: the whole days of a non-negative difference
days(delta) == delta \div 24

\* _save_state(): writes the file, or logs a warning when it cannot
_save_state(last, written) ==
    IF written
    THEN [exists |-> TRUE,
          last_reindex_time |-> IF last # NoneTime THEN isoformat(last) ELSE None]
    ELSE state_file

\* store_embeddings(): collection.upsert replaces the content whose ids the
\* batch holds and leaves the rest, so the oldest content is that of this
\* hour when the store was empty or the batch held every stored id
Upserted(performed) ==
    IF performed = "stored"
    THEN \E refreshed \in BOOLEAN :
            oldest_content' = IF oldest_content = NoneTime \/ refreshed THEN now
                              ELSE oldest_content
    ELSE UNCHANGED oldest_content

\* _run_full_reindex(): backup, _perform_full_reindex, state update, log.
\* performed is what _perform_full_reindex did: "stored", "store_failed"
\* (store_embeddings returned False) or "raised".
RunFullReindex(backed_up, performed, written) ==
    LET start_time == now
    IN  /\ backups' = IF backed_up THEN backups + 1 ELSE backups
        /\ fetches' = fetches + 1
        /\ vector_db' = IF performed = "stored" THEN vector_db + 1 ELSE vector_db
        /\ Upserted(performed)
        /\ IF performed = "raised"
           THEN /\ logs' = Append(logs, [type |-> "full", error |-> TRUE])
                /\ UNCHANGED <<last_reindex_time, state_file>>
           ELSE /\ last_reindex_time' = start_time
                /\ state_file' = _save_state(start_time, written)
                /\ logs' = Append(logs, [type |-> "full", error |-> FALSE,
                                         success |-> performed = "stored"])
        /\ UNCHANGED alertVars
        /\ call' = [op |-> "_run_full_reindex", start_time |-> start_time,
                    performed |-> performed, written |-> written]
        /\ ret' = Returned
        /\ UNCHANGED now
        /\ UNCHANGED storeVars

\* the test that skips the incremental update
NoRecentFullReindex(start_time, last) ==
    last = NoneTime \/ days(start_time - last) > 14

\* _run_incremental_update(): performed is what _perform_incremental_update
\* did: "stored" (PDFs found and upserted), "nothing" (no PDF found) or
\* "raised"
RunIncrementalUpdate(performed) ==
    LET start_time == now
    IN  /\ IF NoRecentFullReindex(start_time, last_reindex_time)
           THEN UNCHANGED <<fetches, vector_db, oldest_content, logs>>
           ELSE /\ fetches' = fetches + 1
                /\ vector_db' = IF performed = "stored" THEN vector_db + 1
                                ELSE vector_db
                /\ Upserted(performed)
                /\ logs' = Append(logs,
                               IF performed = "raised"
                               THEN [type |-> "incremental", error |-> TRUE]
                               ELSE [type |-> "incremental", error |-> FALSE,
                                     success |-> TRUE])
        /\ UNCHANGED alertVars
        /\ call' = [op |-> "_run_incremental_update", start_time |-> start_time,
                    performed |-> IF NoRecentFullReindex(start_time, last_reindex_time)
                                  THEN "skipped" ELSE performed]
        /\ ret' = Returned
        /\ UNCHANGED <<now, last_reindex_time, state_file, backups>>
        /\ UNCHANGED storeVars

\* _run_database_maintenance(): delete_old_content deletes nothing, then the
\* statistics and the monthly backup; performed is "done", or "raised" when
\* get_collection_stats raised and the except clause logged it
RunDatabaseMaintenance(backed_up, performed) ==
    /\ backups' = IF backed_up /\ performed # "raised" THEN backups + 1 ELSE backups
    /\ UNCHANGED alertVars
    /\ call' = [op |-> "_run_database_maintenance", performed |-> performed,
                backed_up |-> backed_up]
    /\ ret' = Returned
    /\ UNCHANGED <<now, last_reindex_time, state_file, vector_db, oldest_content,
                   fetches, logs>>
    /\ UNCHANGED storeVars

\* force_reindex(reindex_type): the bare _perform_ functions
ForceReindex(reindex_type, performed) ==
    /\ UNCHANGED alertVars
    /\ call' = [op |-> "force_reindex", reindex_type |-> reindex_type]
    /\ IF reindex_type \notin {"full", "incremental"}
       THEN /\ ret' = Raise("reindex_type must be 'full' or 'incremental'")
            /\ UNCHANGED <<fetches, vector_db, oldest_content>>
       ELSE /\ fetches' = fetches + 1
            /\ vector_db' = IF performed = "stored" THEN vector_db + 1 ELSE vector_db
            /\ Upserted(performed)
            /\ ret' = IF performed = "raised" THEN Raise("fetch failed")
                      ELSE Ok([errors |-> performed = "store_failed"])
    /\ UNCHANGED <<now, last_reindex_time, state_file, backups, logs>>
    /\ UNCHANGED storeVars

\* a new scheduler process: __init__ and _load_state()
Restart ==
    /\ last_reindex_time' =
          IF state_file.exists /\ Truthy(state_file.last_reindex_time)
          THEN fromisoformat(state_file.last_reindex_time)
          ELSE NoneTime
    /\ UNCHANGED alertVars
    /\ call' = [op |-> "__init__"]
    /\ ret' = Returned
    /\ UNCHANGED <<now, state_file, vector_db, oldest_content,
                   fetches, backups, logs>>
    /\ UNCHANGED storeVars

\* time passes
Tick(hours) ==
    /\ now + hours <= MaxClock
    /\ now' = now + hours
    /\ UNCHANGED alertVars
    /\ call' = [op |-> "sleep"]
    /\ ret' = Returned
    /\ UNCHANGED <<last_reindex_time, state_file, vector_db, oldest_content,
                   fetches, backups, logs>>
    /\ UNCHANGED storeVars

\* the jobs and force_reindex run one after the other, each from start to end
SchedNext ==
    \/ \E hours \in {12, 168} : Tick(hours) /\ UNCHANGED threadVars
    \/ \E backed_up, written \in BOOLEAN,
          performed \in {"stored", "store_failed", "raised"} :
          /\ Len(logs) < MaxLogs /\ fetches < MaxFetches /\ backups < MaxBackups
          /\ RunFullReindex(backed_up, performed, written)
          /\ UNCHANGED threadVars
    \/ \E performed \in {"stored", "nothing", "raised"} :
          /\ Len(logs) < MaxLogs /\ fetches < MaxFetches
          /\ RunIncrementalUpdate(performed)
          /\ UNCHANGED threadVars
    \/ \E backed_up \in BOOLEAN, performed \in {"done", "raised"} :
          /\ backups < MaxBackups
          /\ RunDatabaseMaintenance(backed_up, performed)
          /\ UNCHANGED threadVars
    \/ \E reindex_type \in {"full", "incremental", "weekly"},
          performed \in {"stored", "store_failed", "raised"} :
          /\ fetches < MaxFetches
          /\ ForceReindex(reindex_type, performed)
          /\ UNCHANGED threadVars
    \/ Restart /\ UNCHANGED threadVars

SpecSched == Init /\ [][SchedNext]_vars

\* C10: an incremental update that starts while last_reindex_time is null or
\* more than 14 * 24 hours old changes nothing: no fetch, no write to the
\* vector database, no log entry, no backup, no change of scheduler state.
C10_IncrementalSkipped ==
    [][(/\ call'.op = "_run_incremental_update"
        /\ \/ last_reindex_time = NoneTime
           \/ now - last_reindex_time > 14 * 24)
       => UNCHANGED schedVars]_vars

-----------------------------------------------------------------------------
(* _synthesize_response on long result lists *)

MaxMergeSchemes == 7
MaxMergeDocs == 7

\* the i-th of a run of structured results, all with different names
RankedScheme(i) == SchemeResult("Scheme " \o ToString(i))

\* the j-th retrieved document: it names a scheme of its own, or, as a
\* duplicate, the first structured scheme in lower case
RankedDocument(j, duplicate) ==
    DocumentResult(IF duplicate THEN "scheme 1" ELSE "Yojana " \o ToString(j))

MergeCalls ==
    {[op |-> "pending", query |-> "scheme",
      documents |-> [j \in 1..k |-> RankedDocument(j, j \in duplicates)],
      schemes |-> [i \in 1..n |-> RankedScheme(i)],
      analysis |-> CHOOSE analysis \in SynthAnalyses : analysis.category = "general"] :
        n \in 0..MaxMergeSchemes,
        k \in 0..MaxMergeDocs,
        duplicates \in SUBSET (1..MaxMergeDocs)}

SpecMerge == Pending(MergeCalls) /\ [][SynthNext]_vars

EntriesFrom(merged, data_source) ==
    {k \in 1..Len(merged) : merged[k].data_source = data_source}

\* C11: the merged list of a synthesis has at most 10 entries, at most 5 of
\* them from structured_schemes and at most 5 from documents, and every
\* structured entry stands before every document entry.
C11_MergedListCapped ==
    (call.op = "_synthesize_response" /\ ret.ok) =>
        LET merged == ret.val.schemes
            structured == EntriesFrom(merged, "structured_schemes")
            from_documents == EntriesFrom(merged, "documents")
        IN  /\ Len(merged) <= 10
            /\ Cardinality(structured) <= 5
            /\ Cardinality(from_documents) <= 5
            /\ structured \cup from_documents = 1..Len(merged)
            /\ \A i \in structured, j \in from_documents : i < j

\* seven structured results and seven documents with names of their own were
\* merged into five entries of each kind
C11_Witness ==
    /\ call.op = "_synthesize_response"
    /\ Len(call.schemes) = 7
    /\ Len(call.documents) = 7
    /\ \A j \in 1..7 : call.documents[j].metadata.scheme_name # "scheme 1"
    /\ ret.ok
    /\ Len(ret.val.schemes) = 10
    /\ EntriesFrom(ret.val.schemes, "structured_schemes") = 1..5
    /\ EntriesFrom(ret.val.schemes, "documents") = 6..10

-----------------------------------------------------------------------------
(* AutoReindexScheduler: the loop thread and callers of force_reindex *)

Jobs == {"full", "incremental", "maintenance"}

\* start_scheduler(): month_registered tells whether schedule.every().month
\* gave a job or raised AttributeError, the schedule package naming no such
\* unit in every release
StartScheduler(month_registered) ==
    /\ UNCHANGED alertVars
    /\ call' = [op |-> "start_scheduler"]
    /\ IF is_running
       THEN /\ ret' = Returned
            /\ UNCHANGED threadVars
       ELSE IF ~month_registered
       THEN /\ ret' = Raise("'Job' object has no attribute 'month'")
            /\ UNCHANGED threadVars
       ELSE /\ ret' = Returned
            /\ is_running' = TRUE
            /\ \E t \in LoopThreads :
                  /\ active[t] = "none"
                  /\ active' = [active EXCEPT ![t] = "idle"]
    /\ UNCHANGED <<now, last_reindex_time, state_file, vector_db, oldest_content,
                   fetches,
                   backups, logs>>
    /\ UNCHANGED storeVars

\* stop_scheduler(): join(timeout=5) does not wait for a thread that sleeps
\* or works longer
StopScheduler ==
    /\ UNCHANGED alertVars
    /\ call' = [op |-> "stop_scheduler"]
    /\ ret' = Returned
    /\ is_running' = FALSE
    /\ UNCHANGED <<now, last_reindex_time, state_file, vector_db, oldest_content,
                   fetches,
                   backups, logs, active>>
    /\ UNCHANGED storeVars

\* _scheduler_loop(): while self.is_running fails and the thread ends
LoopExit(t) ==
    /\ active[t] = "idle"
    /\ ~is_running
    /\ active' = [active EXCEPT ![t] = "none"]
    /\ UNCHANGED alertVars
    /\ call' = [op |-> "_scheduler_loop", thread |-> t, step |-> "return"]
    /\ ret' = Returned
    /\ UNCHANGED <<now, last_reindex_time, state_file, vector_db, oldest_content,
                   fetches,
                   backups, logs, is_running>>
    /\ UNCHANGED storeVars

\* _scheduler_loop(): run_pending() calls a job that is due
LoopBegin(t, job) ==
    /\ active[t] = "idle"
    /\ is_running
    /\ active' = [active EXCEPT ![t] = job]
    /\ UNCHANGED alertVars
    /\ call' = [op |-> "_scheduler_loop", thread |-> t, step |-> job]
    /\ ret' = Returned
    /\ UNCHANGED <<now, last_reindex_time, state_file, vector_db, oldest_content,
                   fetches,
                   backups, logs, is_running>>
    /\ UNCHANGED storeVars

\* a loop thread that ends when its job raised
LoopEnd_Dies(t, backed_up, performed, written) ==
    /\ active[t] \in Jobs
    /\ CASE active[t] = "full" ->
                /\ performed \in {"stored", "store_failed", "raised"}
                /\ RunFullReindex(backed_up, performed, written)
         [] active[t] = "incremental" ->
                /\ performed \in {"stored", "nothing", "raised"}
                /\ RunIncrementalUpdate(performed)
         [] active[t] = "maintenance" ->
                /\ performed \in {"done", "raised"}
                /\ RunDatabaseMaintenance(backed_up, performed)
    /\ active' = [active EXCEPT ![t] = IF performed = "raised" THEN "none" ELSE "idle"]
    /\ UNCHANGED is_running

\* the job called by run_pending() comes to its end, and the loop sleeps
LoopEnd(t, backed_up, performed, written) ==
    /\ active[t] \in Jobs
    /\ CASE active[t] = "full" ->
                /\ performed \in {"stored", "store_failed", "raised"}
                /\ RunFullReindex(backed_up, performed, written)
         [] active[t] = "incremental" ->
                /\ performed \in {"stored", "nothing", "raised"}
                /\ RunIncrementalUpdate(performed)
         [] active[t] = "maintenance" ->
                /\ performed \in {"done", "raised"}
                /\ RunDatabaseMaintenance(backed_up, performed)
    /\ active' = [active EXCEPT ![t] = "idle"]
    /\ UNCHANGED is_running

\* a thread enters force_reindex(reindex_type)
ForceBegin(t, reindex_type) ==
    /\ active[t] = "none"
    /\ reindex_type \in {"full", "incremental"}
    /\ active' = [active EXCEPT ![t] = reindex_type]
    /\ UNCHANGED alertVars
    /\ call' = [op |-> "force_reindex", reindex_type |-> reindex_type]
    /\ ret' = Returned
    /\ UNCHANGED <<now, last_reindex_time, state_file, vector_db, oldest_content,
                   fetches,
                   backups, logs, is_running>>
    /\ UNCHANGED storeVars

\* force_reindex returns or raises
ForceEnd(t, performed) ==
    /\ active[t] \in {"full", "incremental"}
    /\ ForceReindex(active[t], performed)
    /\ active' = [active EXCEPT ![t] = "none"]
    /\ UNCHANGED is_running

ThreadsNext ==
    \/ \E month_registered \in BOOLEAN : StartScheduler(month_registered)
    \/ StopScheduler
    \/ \E t \in LoopThreads : LoopExit(t)
    \/ \E t \in LoopThreads, job \in Jobs : LoopBegin(t, job)
    \/ \E t \in LoopThreads, backed_up, written \in BOOLEAN,
          performed \in {"stored", "store_failed", "nothing", "done", "raised"} :
          /\ Len(logs) < MaxLogs /\ fetches < MaxFetches /\ backups < MaxBackups
          /\ LoopEnd(t, backed_up, performed, written)
    \/ \E t \in Callers, reindex_type \in {"full", "incremental"} :
          ForceBegin(t, reindex_type)
    \/ \E t \in Callers, performed \in {"stored", "store_failed", "raised"} :
          /\ fetches < MaxFetches
          /\ ForceEnd(t, performed)

SpecThreads == Init /\ [][ThreadsNext]_vars

\* the threads inside a full or incremental reindex
Reindexing == {t \in Threads : active[t] \in {"full", "incremental"}}

\* C14: at most one full or incremental reindex is executing at any time,
\* whatever the interleaving of the scheduler thread's jobs and the
\* force_reindex calls of other threads.
C14_OneReindexAtATime == Cardinality(Reindexing) <= 1

\* the loop thread polls the pending jobs every minute for as long as it
\* lives, so a job that is due is begun
SpecThreadsFair ==
    SpecThreads /\ WF_threadVars(\E t \in LoopThreads, job \in Jobs : LoopBegin(t, job))

JobOps == {"_run_full_reindex", "_run_incremental_update", "_run_database_maintenance"}

\* the step just taken was a job that raised
JobFailed == call.op \in JobOps /\ call.performed = "raised"

\* C15: a scheduled job that fails with an exception leaves is_running as it
\* was and its loop thread alive and polling, and while the scheduler is
\* not stopped a later job is begun.
C15_FailureIsolated ==
    /\ [][(call'.op \in JobOps /\ call'.performed = "raised") =>
            /\ is_running' = is_running
            /\ \A t \in LoopThreads : active[t] \in Jobs => active'[t] \in Jobs \cup {"idle"}
            /\ \E t \in LoopThreads : active[t] \in Jobs /\ active'[t] = "idle"]_threadVars
    /\ [](JobFailed =>
            <>(\/ call.op = "_scheduler_loop" /\ call.step \in Jobs
               \/ ~is_running))

\* a full reindex raised, and the same and only loop thread has begun the
\* next job
C15_Witness ==
    /\ Len(logs) = 1
    /\ logs[1] = [type |-> "full", error |-> TRUE]
    /\ is_running
    /\ active["loop2"] = "none"
    /\ active["loop1"] = "incremental"
    /\ call = [op |-> "_scheduler_loop", thread |-> "loop1", step |-> "incremental"]

\* a full or incremental run that came to its end without raising, on a
\* logs directory that can be written
RunCompleted ==
    /\ call.op \in {"_run_full_reindex", "_run_incremental_update"}
    /\ call.performed \in {"stored", "store_failed", "nothing"}
    /\ call.op = "_run_full_reindex" => call.written

\* C16: at the end of every completed full run and every completed
\* incremental run (the logs directory being writable) last_reindex_time is
\* the start of that run and the state file holds it, and a scheduler
\* constructed afterwards reads back the last_reindex_time of the state file.
C16_RunStatePersisted ==
    /\ [][RunCompleted' =>
            /\ last_reindex_time' = call'.start_time
            /\ state_file'.exists
            /\ state_file'.last_reindex_time = isoformat(call'.start_time)]_vars
    /\ [][(call'.op = "__init__" /\ state_file.exists) =>
            isoformat(last_reindex_time') = state_file.last_reindex_time]_vars

-----------------------------------------------------------------------------
(* Re-indexing the government sources, in one process and after a restart *)

MaxReindexRows == 4

\* the string-hash salts a new process may draw: that of the first process
\* again (PYTHONHASHSEED fixed) or another one
HashSeeds == {"seed0", "seed1"}

ReindexNext ==
    \/ \E website_content \in WebsiteContents :
          /\ Len(documents_fts) + Len(website_content) <= MaxReindexRows
          /\ IndexGovernmentSources(website_content)
    \/ \E seed \in HashSeeds : Reopen(seed)

SpecReindex == Init /\ [][ReindexNext]_vars

\* the page was indexed before, by this process or an earlier one: a row holds
\* the id that indexing it gave
AlreadyIndexed(page) ==
    \E seed \in HashSeeds, i \in 1..Len(documents) :
        documents[i].id = WebDocuments(<<page>>, seed)[1].id

\* C17: indexing source records that were all indexed before, in this process
\* or in an earlier one, gives each the id it had: the rows are replaced in
\* place and neither the documents table nor total_documents grows.
C17_StableDocumentId ==
    [][(/\ call'.op = "index_government_sources"
        /\ \A i \in 1..Len(call'.website_content) :
               AlreadyIndexed(call'.website_content[i]))
       => /\ Len(documents') = Len(documents)
          /\ total_documents' = Len(documents)]_vars

-----------------------------------------------------------------------------
(* MemoryService.should_store_conversation *)

\* str.strip() of blanks
RECURSIVE Strip(_)
Strip(s) ==
    IF s = "" THEN ""
    ELSE IF SubSeq(s, 1, 1) = " " THEN Strip(SubSeq(s, 2, Len(s)))
    ELSE IF SubSeq(s, Len(s), Len(s)) = " " THEN Strip(SubSeq(s, 1, Len(s) - 1))
    ELSE s

low_value_patterns ==
    {"hello", "hi", "thanks", "thank you", "bye", "goodbye",
     "what can you do", "help", "how are you"}

valuable_intents == {"weather", "govt_scheme", "market", "plant_doc"}

agricultural_keywords ==
    {"crop", "farm", "soil", "irrigation", "fertilizer", "seed", "harvest",
     "pesticide", "weather", "rain", "drought", "yield", "acre", "hectare"}

should_store_conversation(user_message, intent, bot_response) ==
    LET user_lower == Strip(Lower(user_message))
    IN  IF \E pattern \in low_value_patterns : Contains(pattern, user_lower)
        THEN FALSE
        ELSE IF Len(Strip(user_message)) < 10
        THEN FALSE
        ELSE IF Contains("sorry", Lower(bot_response)) \/ Contains("error", Lower(bot_response))
        THEN FALSE
        ELSE IF intent \in valuable_intents
        THEN TRUE
        ELSE IF \E keyword \in agricultural_keywords : Contains(keyword, user_lower)
        THEN TRUE
        ELSE FALSE

ShouldStoreConversation(user_message, intent, bot_response) ==
    /\ UNCHANGED alertVars
    /\ call' = [op |-> "should_store_conversation", user_message |-> user_message,
                intent |-> intent, bot_response |-> bot_response]
    /\ ret' = should_store_conversation(user_message, intent, bot_response)
    /\ UNCHANGED storeVars
    /\ UNCHANGED schedVars

UserMessages ==
    {"hello", "Hi there", "thanks", "what can you do",
     "Thank you for the soil advice",
     "soil test", "   rain   ",
     "when to harvest tomatoes", "I have 10 acres of rice farm",
     "this crop needs rain", "chickpea irrigation plan",
     "price of onions today"}

Intents == {"general", "weather", "govt_scheme", "market", "plant_doc"}

BotResponses ==
    {"Harvest when firm.", "Sorry, I encountered an error", "An ERROR occurred"}

StoreCalls ==
    {[op |-> "pending", user_message |-> user_message, intent |-> intent,
      bot_response |-> bot_response] :
        user_message \in UserMessages, intent \in Intents,
        bot_response \in BotResponses}

MemoryNext ==
    /\ call.op = "pending"
    /\ ShouldStoreConversation(call.user_message, call.intent, call.bot_response)

SpecMemory == Pending(StoreCalls) /\ [][MemoryNext]_vars

\* the message holds a greeting, thanks or capability question: the words of
\* a low-value phrase follow one another among its words
IsLowValue(user_message) ==
    \E pattern \in low_value_patterns :
        Contains(Split(pattern), Split(Lower(user_message)))

\* the bot response reports an error or an apology
ReportsFailure(bot_response) ==
    Contains("sorry", Lower(bot_response)) \/ Contains("error", Lower(bot_response))

\* C18: should_store_conversation is False for a greeting, thanks or
\* capability question, for a message of fewer than 10 characters and for a
\* bot response that reports an error or apology, and True for every other
\* message whose intent is weather, govt_scheme, market or plant_doc or that
\* contains an agricultural keyword, also when one of its words merely
\* contains a greeting word.
C18_StoreDecision ==
    call.op = "should_store_conversation" =>
        IF \/ IsLowValue(call.user_message)
           \/ Len(Strip(call.user_message)) < 10
           \/ ReportsFailure(call.bot_response)
        THEN ret = FALSE
        ELSE (\/ call.intent \in valuable_intents
              \/ \E keyword \in agricultural_keywords :
                    Contains(keyword, Lower(call.user_message)))
             => ret = TRUE

\* the step just taken was a full reindex run, scheduled or forced
FullRun ==
    \/ call.op = "_run_full_reindex"
    \/ call.op = "force_reindex" /\ call.reindex_type = "full"

\* C19: in every full reindex run, scheduled or forced, a write reaches the
\* store only when a backup of the store completed in the same run.
C19_BackupBeforeWrite ==
    [][(FullRun' /\ vector_db' # vector_db) => backups' = backups + 1]_vars

-----------------------------------------------------------------------------
(* store_documents statement by statement, next to a thread that searches *)

MaxCacheRows == 3

\* the place of a thread inside _update_tfidf_cache: before the row that the
\* for loop handles next
FillAt(i) == "fill_" \o ToString(i)

\* store_documents(): the for loop and the commit
StoreDocumentsBegin(t, batch) ==
    LET r == IF Cursor.ok THEN StoreLoop(batch, documents, documents_fts, hash_seed)
             ELSE [ok |-> FALSE, docs |-> documents, fts |-> documents_fts]
    IN  /\ active[t] = "none"
        /\ documents' = r.docs
        /\ documents_fts' = r.fts
        /\ IF r.ok
           THEN /\ committed' = [documents |-> r.docs, documents_fts |-> r.fts,
                                 schemes |-> schemes]
                /\ active' = [active EXCEPT ![t] = "committed"]
                /\ ret' = ret
           ELSE /\ UNCHANGED <<committed, active>>
                /\ ret' = FALSE
        /\ UNCHANGED alertVars
        /\ call' = [op |-> "store_documents", documents |-> batch]
        /\ UNCHANGED <<total_documents, document_frequencies, schemes, hash_seed, conn>>
        /\ UNCHANGED <<now, last_reindex_time, state_file, vector_db, oldest_content,
                   fetches,
                       backups, logs, is_running>>

\* _update_tfidf_cache(): self.total_documents = cursor.fetchone()[0]
CacheCount(t) ==
    /\ active[t] = "committed"
    /\ total_documents' = Len(documents)
    /\ active' = [active EXCEPT ![t] = "counted"]
    /\ UNCHANGED alertVars
    /\ call' = [op |-> "_update_tfidf_cache", step |-> "count"]
    /\ UNCHANGED <<documents, documents_fts, schemes, document_frequencies,
                   committed, hash_seed, conn, ret>>
    /\ UNCHANGED <<now, last_reindex_time, state_file, vector_db, oldest_content,
                   fetches,
                   backups, logs, is_running>>

\* _update_tfidf_cache(): self.document_frequencies.clear()
CacheClear(t) ==
    /\ active[t] = "counted"
    /\ document_frequencies' = <<>>
    /\ active' = [active EXCEPT ![t] = FillAt(1)]
    /\ UNCHANGED alertVars
    /\ call' = [op |-> "_update_tfidf_cache", step |-> "clear"]
    /\ UNCHANGED <<documents, documents_fts, schemes, total_documents,
                   committed, hash_seed, conn, ret>>
    /\ UNCHANGED <<now, last_reindex_time, state_file, vector_db, oldest_content,
                   fetches,
                   backups, logs, is_running>>

\* document_frequencies[term] += 1 for the terms of one row
CountTerms(frequencies, terms) ==
    [term \in DOMAIN frequencies \cup terms |->
        (IF term \in DOMAIN frequencies THEN frequencies[term] ELSE 0)
        + (IF term \in terms THEN 1 ELSE 0)]

\* _update_tfidf_cache(): one round of the for loop over the rows, or its
\* end, where store_documents returns True
CacheFill(t) ==
    /\ \E i \in 1..(Len(documents) + 1) :
          /\ active[t] = FillAt(i)
          /\ IF i <= Len(documents)
             THEN /\ document_frequencies' =
                        CountTerms(document_frequencies,
                                   SeqRange(_tokenize(documents[i].content)))
                  /\ active' = [active EXCEPT ![t] = FillAt(i + 1)]
                  /\ ret' = ret
             ELSE /\ UNCHANGED document_frequencies
                  /\ active' = [active EXCEPT ![t] = "none"]
                  /\ ret' = TRUE
    /\ UNCHANGED alertVars
    /\ call' = [op |-> "_update_tfidf_cache", step |-> "fill"]
    /\ UNCHANGED <<documents, documents_fts, schemes, total_documents,
                   committed, hash_seed, conn>>
    /\ UNCHANGED <<now, last_reindex_time, state_file, vector_db, oldest_content,
                   fetches,
                   backups, logs, is_running>>

\* documents that each have an id and a content of their own, so that the
\* table only grows
CacheDocs ==
    {StoreDoc("d1", "drip drip", Missing), StoreDoc("d2", "Drip seeds", Missing),
     StoreDoc("d3", "seeds for drip", Missing)}

CacheNext ==
    \/ \E d \in CacheDocs :
          /\ Len(documents_fts) < MaxCacheRows
          /\ StoreDocumentsBegin("caller1", <<d>>)
    \/ CacheCount("caller1")
    \/ CacheClear("caller1")
    \/ CacheFill("caller1")
    \/ \E query \in {"drip", "seeds"} : SearchSimilar(query, 10, NoFilters)

SpecCache == Init /\ [][CacheNext]_vars

\* the pairing is the complete result of one rebuild: that of a table which
\* held some of the rows stored so far
CompleteRebuild(total, frequencies) ==
    \E held \in SUBSET SeqRange(documents) :
        LET cache == _update_tfidf_cache(SelectRows(documents, held))
        IN  /\ total = cache.total_documents
            /\ DOMAIN frequencies = DOMAIN cache.document_frequencies
            /\ \A term \in DOMAIN frequencies :
                  frequencies[term] = cache.document_frequencies[term]

\* C20: a search_similar call that runs while store_documents is running
\* scores against a total_documents / document_frequencies pairing that is
\* the complete result of one rebuild, never a partially rebuilt one.
C20_AtomicRebuild ==
    [][call'.op = "search_similar" =>
          CompleteRebuild(total_documents, document_frequencies)]_vars

-----------------------------------------------------------------------------
(* The Document Store under store_documents calls alone *)

StoreOnlyNext ==
    \E batch \in StoreBatches :
        /\ Len(documents_fts) + Len(batch) <= MaxFtsRows
        /\ StoreDocuments(batch)

SpecStoreOnly == Init /\ [][StoreOnlyNext]_vars

\* C21: after any sequence of store_documents calls every term's document
\* frequency is at most total_documents, and total_documents is the number
\* of rows of the documents table.
C21_StatisticsMatchTable ==
    /\ \A t \in DOMAIN document_frequencies :
          document_frequencies[t] <= total_documents
    /\ total_documents = Len(documents)

\* the smaller of two numbers
Min(a, b) == IF a <= b THEN a ELSE b

\* C22: search_similar with an empty query on a store that holds documents
\* returns the top_k most recently indexed documents, the most recent
\* first, not an empty list.
C22_EmptyQueryRecent ==
    (/\ call.op = "search_similar"
     /\ call.query = ""
     /\ documents # <<>>)
    => /\ Len(ret) = Min(call.top_k, Len(documents))
       /\ \A i \in 1..Len(ret) :
             ret[i].content = documents[Len(documents) + 1 - i].content

-----------------------------------------------------------------------------
(* search_similar with metadata filters over indexed pages *)

MaxFilterRows == 2

\* the filters _search_documents builds: a state, a category, both or none
MetadataFilters ==
    {[state |-> state, category |-> category, status |-> Missing] :
        state \in {Missing, "maharashtra", "punjab"},
        category \in {Missing, "central", "state"}}

FilterNext ==
    \/ \E website_content \in WebsiteContents :
          /\ Len(documents_fts) + Len(website_content) <= MaxFilterRows
          /\ IndexGovernmentSources(website_content)
    \/ \E query \in {"drip", "yojana"}, filters \in MetadataFilters :
          SearchSimilar(query, 10, filters)

SpecFilter == Init /\ [][FilterNext]_vars

\* C23: search_similar with an equality filter on state or category returns
\* no document whose metadata value for that key differs from the filter
\* value.
C23_FiltersRespected ==
    call.op = "search_similar" =>
        \A i \in 1..Len(ret) :
            /\ call.filters.state # Missing =>
                  ret[i].metadata.state = call.filters.state
            /\ call.filters.category # Missing =>
                  ret[i].metadata.category = call.filters.category

\* C24: every successful response carries between 3 and 5
\* farmer_recommendations, whatever the farmer_type and the category of the
\* analysis.
C24_RecommendationCount ==
    (call.op = "_synthesize_response" /\ ret.ok /\ ret.val.success)
    => /\ Len(ret.val.farmer_recommendations) >= 3
       /\ Len(ret.val.farmer_recommendations) <= 5

\* the structured results are rows of the schemes table, whose key is the
\* scheme id: no two of them have the same id
DistinctSchemeRows(schs) ==
    \A i, j \in 1..Len(schs) : schs[i].scheme_id = schs[j].scheme_id => i = j

\* C25: the merged scheme list of a synthesis never holds two entries whose
\* names are equal ignoring case, whatever their sources.
C25_NamesUnique ==
    (call.op = "_synthesize_response" /\ ret.ok /\ DistinctSchemeRows(call.schemes)) =>
        \A i, j \in 1..Len(ret.val.schemes) :
            Lower(ret.val.schemes[i].name) = Lower(ret.val.schemes[j].name) => i = j

-----------------------------------------------------------------------------
(* The monthly maintenance job over months of content *)

\* delete_old_content(days_old=90)
RetentionDays == 90

MaxMaintenanceDays == 124

\* days pass between two runs of the jobs
TickDays(d) ==
    /\ now + 24 * d <= 24 * MaxMaintenanceDays
    /\ now' = now + 24 * d
    /\ UNCHANGED alertVars
    /\ call' = [op |-> "sleep"]
    /\ ret' = Returned
    /\ UNCHANGED <<last_reindex_time, state_file, vector_db, oldest_content,
                   fetches, backups, logs>>
    /\ UNCHANGED storeVars

MaintenanceNext ==
    \/ \E d \in {7, 30} : TickDays(d) /\ UNCHANGED threadVars
    \/ \E backed_up, written \in BOOLEAN,
          performed \in {"stored", "store_failed", "raised"} :
          /\ Len(logs) < MaxLogs /\ fetches < MaxFetches /\ backups < MaxBackups
          /\ RunFullReindex(backed_up, performed, written)
          /\ UNCHANGED threadVars
    \/ \E backed_up \in BOOLEAN, performed \in {"done", "raised"} :
          /\ backups < MaxBackups
          /\ RunDatabaseMaintenance(backed_up, performed)
          /\ UNCHANGED threadVars

SpecMaintenance == Init /\ [][MaintenanceNext]_vars

\* the maintenance job came to its end without an error, its backup
\* directory being writable
MaintenanceCompleted ==
    /\ call.op = "_run_database_maintenance"
    /\ call.performed = "done"
    /\ call.backed_up

\* C26: after the monthly maintenance job completed without error the store
\* holds no content indexed longer ago than the retention window of 90
\* days, and a monthly backup has been taken.
C26_MaintenancePrunes ==
    [][MaintenanceCompleted' =>
          /\ oldest_content' # NoneTime => days(now' - oldest_content') <= RetentionDays
          /\ backups' = backups + 1]_vars

\* the loop threads that are alive: polling, sleeping or inside a job
LoopsAlive == {t \in LoopThreads : active[t] # "none"}

\* C27: after any sequence of start_scheduler and stop_scheduler calls at
\* most one background loop thread polls the pending jobs, and a
\* start_scheduler while the scheduler is running starts nothing.
C27_SingleLoop ==
    /\ [](Cardinality(LoopsAlive) <= 1)
    /\ [][(call'.op = "start_scheduler" /\ is_running) => UNCHANGED threadVars]_threadVars

\* the store was opened on a database that holds documents, and no
\* store_documents call of this process has rebuilt the term statistics
OpenedOnStoredCorpus ==
    /\ committed.documents # <<>>
    /\ documents = committed.documents
    /\ total_documents = 0

\* C28: a store opened in a new process on a database that already holds
\* documents serves search_similar with term statistics that describe the
\* stored corpus, and answers a query whose terms occur in a stored document
\* with that document in the results.
C28_ServedAfterReopen ==
    (/\ call.op = "search_similar"
     /\ call.top_k >= Len(documents_fts)
     /\ OpenedOnStoredCorpus) =>
        /\ total_documents = Len(documents)
        /\ \A i \in 1..Len(documents) :
              LET D == documents[i]
                  query_terms == SeqRange(_tokenize(call.query))
              IN  (query_terms # {} /\ query_terms \subseteq SeqRange(_tokenize(D.content))) =>
                      \E j \in 1..Len(ret) : IsResultOf(ret[j], D)

\* C29: a store_documents call that returns False leaves the store as it
\* was: the documents table, the full-text index and the term statistics
\* are unchanged.
C29_FailedStoreChangesNothing ==
    [][(call'.op = "store_documents" /\ ret' = FALSE) =>
          /\ documents' = documents
          /\ documents_fts' = documents_fts
          /\ total_documents' = total_documents
          /\ document_frequencies' = document_frequencies]_vars

\* ---------------------------------------------------------------------------
\* AlertProcessor (services/alert_processor.py): unsent alerts are fetched,
\* posted to the alert webhook and, once delivered, marked as sent.
\* ---------------------------------------------------------------------------

\* the rows of alert_summary that satisfy is_sent = eq.false
UnsentRows == {a \in AlertIds : alert_summary[a] = "unsent"}

\* order = created_at.desc: ids are handed out in creation order
RECURSIVE NewestFirst(_)
NewestFirst(ids) ==
    IF ids = {} THEN <<>>
    ELSE LET newest == CHOOSE a \in ids : \A b \in ids : b <= a
         IN  <<newest>> \o NewestFirst(ids \ {newest})

\* get_unsent_alerts: the unsent rows, newest first; any failure of the
\* request is logged and an empty list is returned
get_unsent_alerts(fetched) ==
    IF fetched THEN NewestFirst(UnsentRows) ELSE <<>>

\* a sensor reading outside its thresholds raises the next alert, unsent
InsertAlert ==
    /\ \E a \in AlertIds :
        /\ alert_summary[a] = "absent"
        /\ \A b \in AlertIds : b < a => alert_summary[b] # "absent"
        /\ alert_summary' = [alert_summary EXCEPT ![a] = "unsent"]
        /\ call' = [op |-> "insert", alert |-> a]
    /\ ret' = Returned
    /\ UNCHANGED <<unsent_alerts, send_failures>>
    /\ UNCHANGED storeVars
    /\ UNCHANGED schedVars

\* run_continuously starts a cycle: process_alerts fetches the unsent alerts
\* and returns at once when there are none
ProcessAlertsBegin(fetched) ==
    /\ unsent_alerts = <<>>
    /\ unsent_alerts' = get_unsent_alerts(fetched)
    /\ call' = [op |-> "get_unsent_alerts", fetched |-> fetched]
    /\ ret' = Returned
    /\ UNCHANGED <<alert_summary, send_failures>>
    /\ UNCHANGED storeVars
    /\ UNCHANGED schedVars

Saturated(n) == IF n < MaxSendFailures THEN n + 1 ELSE n

\* the loop body marks the alert whatever send_alert_webhook returned
ProcessAlert_MarkAlways(delivered, marked) ==
    /\ unsent_alerts # <<>>
    /\ LET alert == Head(unsent_alerts)
       IN  /\ alert_summary' =
                IF marked
                THEN [alert_summary EXCEPT ![alert] = "sent"]
                ELSE alert_summary
           /\ send_failures' =
                IF delivered THEN send_failures
                ELSE [send_failures EXCEPT ![alert] = Saturated(@)]
           /\ call' = [op |-> "send_alert_webhook", alert |-> alert,
                       delivered |-> delivered, marked |-> marked]
    /\ unsent_alerts' = Tail(unsent_alerts)
    /\ ret' = Returned
    /\ UNCHANGED storeVars
    /\ UNCHANGED schedVars

\* one turn of the loop of process_alerts: send_alert_webhook posts the alert
\* (delivered says whether that returned True; a failure is logged), and
\* only then mark_alert_as_sent patches is_sent (marked says whether the
\* patch was applied)
ProcessAlert(delivered, marked) ==
    /\ unsent_alerts # <<>>
    /\ LET alert == Head(unsent_alerts)
       IN  /\ alert_summary' =
                IF delivered /\ marked
                THEN [alert_summary EXCEPT ![alert] = "sent"]
                ELSE alert_summary
           /\ send_failures' =
                IF delivered THEN send_failures
                ELSE [send_failures EXCEPT ![alert] = Saturated(@)]
           /\ call' = [op |-> "send_alert_webhook", alert |-> alert,
                       delivered |-> delivered, marked |-> delivered /\ marked]
    /\ unsent_alerts' = Tail(unsent_alerts)
    /\ ret' = Returned
    /\ UNCHANGED storeVars
    /\ UNCHANGED schedVars

AlertsNext ==
    \/ InsertAlert
    \/ \E fetched \in BOOLEAN : ProcessAlertsBegin(fetched)
    \/ \E delivered \in BOOLEAN, marked \in BOOLEAN : ProcessAlert(delivered, marked)

SpecAlerts == Init /\ [][AlertsNext]_vars

\* run_continuously is one asyncio task that nothing cancels: every await in
\* it completes (the requests have timeouts, the sleeps are finite), so a
\* cycle that can begin does begin and a fetched alert's turn does come
SpecAlertsFair ==
    /\ SpecAlerts
    /\ WF_vars(\E fetched \in BOOLEAN : ProcessAlertsBegin(fetched))
    /\ WF_vars(\E delivered \in BOOLEAN, marked \in BOOLEAN : ProcessAlert(delivered, marked))

Attempt(a) == call.op = "send_alert_webhook" /\ call.alert = a

\* an alert becomes sent only in the step that delivered it
MarkedAfterDelivery ==
    [][\A a \in AlertIds :
         (alert_summary[a] # "sent" /\ alert_summary'[a] = "sent")
            => (call'.op = "send_alert_webhook" /\ call'.alert = a
                /\ call'.delivered)]_vars

\* an alert whose delivery failed is unsent after the attempt
FailedStaysUnsent ==
    [][(call'.op = "send_alert_webhook" /\ ~call'.delivered)
         => alert_summary'[call'.alert] = "unsent"]_vars

\* sent alerts stay sent, unsent ones stay until they are marked
NeverLost ==
    [][\A a \in AlertIds :
         /\ alert_summary[a] = "sent" => alert_summary'[a] = "sent"
         /\ alert_summary[a] = "unsent" => alert_summary'[a] # "absent"]_vars

\* every alert a cycle fetched gets its attempt, and after a failed attempt
\* a further cycle begins
KeepsCycling ==
    /\ \A a \in AlertIds :
         [](a \in SeqRange(unsent_alerts) => <>Attempt(a))
    /\ []((call.op = "send_alert_webhook" /\ ~call.delivered)
            => <>(call.op = "get_unsent_alerts"))

\* C30 as stated: an alert is marked as sent only after its delivery
\* succeeded in the same cycle; an alert whose delivery failed stays unsent
\* and every next cycle takes up all the unsent alerts again, the processor
\* cycling on after a failure.
C30_Original ==
    /\ MarkedAfterDelivery
    /\ FailedStaysUnsent
    /\ NeverLost
    /\ KeepsCycling
    /\ [][call'.op = "get_unsent_alerts"
            => UnsentRows \subseteq SeqRange(unsent_alerts')]_vars

\* C30, amended: an alert is marked as sent only after its delivery succeeded
\* in the same cycle; an alert whose delivery failed stays unsent, and every
\* next cycle whose fetch of the unsent alerts succeeds attempts it again,
\* the processor cycling on after a failure.
C30_MarkedOnlyAfterDelivery ==
    /\ MarkedAfterDelivery
    /\ FailedStaysUnsent
    /\ NeverLost
    /\ KeepsCycling
    /\ [][(call'.op = "get_unsent_alerts" /\ call'.fetched)
            => UnsentRows \subseteq SeqRange(unsent_alerts')]_vars

\* an alert whose delivery failed in an earlier cycle has been attempted
\* again, delivered and marked as sent
C30_Witness ==
    \E a \in AlertIds :
        /\ send_failures[a] >= 1
        /\ Attempt(a)
        /\ call.delivered
        /\ alert_summary[a] = "sent"
====
